---- MODULE Spec2Model ----
(***************************************************************************)
(* Model of the slink scraper library: the URL classifier and normalizers  *)
(* (utils.ts), the retry wrapper (utils.ts), the Instagram and Facebook    *)
(* extractors and the SocialMediaScraper facade.                           *)
(*                                                                         *)
(* Strings are sequences of tokens.  Every token stands for the literal    *)
(* text it spells; the token alphabet is chosen so that concatenation is   *)
(* uniquely decodable and no platform signature can arise across a token   *)
(* border, hence substring tests, split and endsWith on the JavaScript     *)
(* string are exactly the token-level tests written below.                 *)
(***************************************************************************)
EXTENDS Integers, Sequences, FiniteSets, TLC

\* ------------------------------------------------------------------ bounds

\* Longest free tail appended to the scheme and host of an enumerated URL.
MaxTail == 3
\* Largest retry count a caller configures (the default of 3 is always there).
MaxRetries == 2
\* Largest number of leading failures of the scripted operation given to retry.
MaxFails == 3
\* Longest text handed to the hashtag and mention extractors.
MaxText == 4

\* ---------------------------------------------------------- JS string model

\* String.prototype.toLowerCase on one token: only the upper-case spellings
\* of the alphabet change.
Lower(t) ==
  CASE t = "FB.WATCH" -> "fb.watch"
    [] t = "INSTAGRAM.COM" -> "instagram.com"
    [] OTHER -> t

toLowerCase(s) == [i \in DOMAIN s |-> Lower(s[i])]

\* String.prototype.includes for a one-token needle.
includes(s, t) == \E i \in DOMAIN s : s[i] = t

\* Index of the first token of s that is in T, 0 when there is none.
FirstIndex(s, T) ==
  IF \E i \in DOMAIN s : s[i] \in T
  THEN CHOOSE i \in DOMAIN s : s[i] \in T /\ \A j \in 1..(i - 1) : s[j] \notin T
  ELSE 0

\* url.split('?')[0]: the text before the first '?'.
splitQuery0(s) ==
  LET q == FirstIndex(s, {"?"})
  IN IF q = 0 THEN s ELSE SubSeq(s, 1, q - 1)

\* String.prototype.endsWith('/'): the last character is a slash.
endsWithSlash(s) == s # <<>> /\ s[Len(s)] \in {"/", "https://"}

\* ------------------------------------------------------------------ errors

Undefined == [name |-> "undefined", code |-> "none", platform |-> "none", message |-> <<>>]

ScraperError(name, message, code, platform) ==
  [name |-> name, code |-> code, platform |-> platform, message |-> message]

URLError(message) == ScraperError("URLError", message, "INVALID_URL", "none")

NetworkError(message, platform) ==
  ScraperError("NetworkError", message, "NETWORK_ERROR", platform)

ParseError(message, platform) ==
  ScraperError("ParseError", message, "PARSE_ERROR", platform)

\* A plain Error, as thrown by `throw new Error(...)`.
PlainError(message) == ScraperError("Error", message, "none", "none")

\* The TypeError the runtime raises: `new URL(x)` on an unparsable x, or the
\* read of a property of undefined.
TypeError(message) == ScraperError("TypeError", message, "none", "none")

\* --------------------------------------------------- WHATWG URL (new URL(x))

\* Tokens after the scheme with the slashes a special scheme ignores removed.
RECURSIVE SkipSlashes(_)
SkipSlashes(s) ==
  IF s # <<>> /\ s[1] = "/" THEN SkipSlashes(Tail(s)) ELSE s

\* The host text of an absolute https URL: up to the first '/', '?' or '#'.
\* A later "https://" token ends the host too (its ':' starts the port) and
\* leaves its letters in the host.
HostOf(s) ==
  LET rest == SkipSlashes(Tail(s))
      e == FirstIndex(rest, {"/", "?", "#", "https://"})
  IN IF e = 0 THEN rest
     ELSE IF rest[e] = "https://" THEN SubSeq(rest, 1, e)
     ELSE SubSeq(rest, 1, e - 1)

\* Number of "12345" tokens that end h.
RECURSIVE TrailingDigits(_)
TrailingDigits(h) ==
  IF h # <<>> /\ h[Len(h)] = "12345"
  THEN 1 + TrailingDigits(SubSeq(h, 1, Len(h) - 1))
  ELSE 0

\* The host parser's verdict: an empty host fails, and a host whose last
\* label is a number is read as an IPv4 address, which fails when another
\* label is not a number or when the number does not fit in 32 bits.
HostValid(h) ==
  LET n == TrailingDigits(h)
  IN /\ h # <<>>
     /\ IF n = 0 THEN TRUE
        ELSE IF n = Len(h) THEN n <= 2
        ELSE h[Len(h) - n] # "www."

\* new URL(s) succeeds: s is absolute (it has a scheme) and its host parses.
URLParses(s) == s # <<>> /\ s[1] = "https://" /\ HostValid(HostOf(s))

\* urlObj.search without its '?': from the first '?' before any '#' up to
\* the '#' that starts the fragment.
QueryOf(s) ==
  LET d == FirstIndex(s, {"?", "#"})
  IN IF d = 0 \/ s[d] = "#" THEN <<>>
     ELSE LET rest == SubSeq(s, d + 1, Len(s))
              h == FirstIndex(rest, {"#"})
          IN IF h = 0 THEN rest ELSE SubSeq(rest, 1, h - 1)

\* Percent-decoding of a parameter value.
RECURSIVE percentDecode(_)
percentDecode(v) ==
  IF v = <<>> THEN <<>>
  ELSE <<(IF v[1] = "%26" THEN "&" ELSE v[1])>> \o percentDecode(Tail(v))

\* URLSearchParams.get('v') on a query: the decoded value of the first
\* name=value pair named v.  found is FALSE when get returns null.
RECURSIVE searchParamsGetV(_)
searchParamsGetV(q) ==
  IF q = <<>> THEN [found |-> FALSE, value |-> <<>>]
  ELSE LET a == FirstIndex(q, {"&"})
           piece == IF a = 0 THEN q ELSE SubSeq(q, 1, a - 1)
           rest == IF a = 0 THEN <<>> ELSE SubSeq(q, a + 1, Len(q))
       IN IF piece # <<>> /\ piece[1] = "v="
          THEN [found |-> TRUE, value |-> percentDecode(Tail(piece))]
          ELSE searchParamsGetV(rest)

\* --------------------------------------------------------- URL classifier

Ok(v) == [ok |-> TRUE, val |-> v, err |-> Undefined]
Throw(e) == [ok |-> FALSE, val |-> <<>>, err |-> e]

\* normalizeInstagramURL with the endsWith('/') test dropped.
normalizeInstagramURLAlwaysAppends(s) == Ok(splitQuery0(s) \o <<"/">>)

\* normalizeInstagramURL(url)
normalizeInstagramURL(s) ==
  LET cleanUrl == splitQuery0(s)
  IN Ok(IF endsWithSlash(cleanUrl) THEN cleanUrl ELSE cleanUrl \o <<"/">>)

CanonicalWatch == <<"https://", "www.", "facebook.com", "/", "watch", "/", "?", "v=">>

\* normalizeFacebookURL(url)
normalizeFacebookURL(s) ==
  IF includes(s, "fb.watch") THEN Ok(s)
  ELSE IF ~URLParses(s) THEN Throw(TypeError(<<"Invalid URL">>))
  ELSE LET videoId == searchParamsGetV(QueryOf(s))
       IN IF videoId.found /\ videoId.value # <<>>
          THEN Ok(CanonicalWatch \o videoId.value)
          ELSE Ok(splitQuery0(s))

Classified(p, n) == [ok |-> TRUE, platform |-> p, normalizedUrl |-> n, err |-> Undefined]
Rejected(e) == [ok |-> FALSE, platform |-> "none", normalizedUrl |-> <<>>, err |-> e]

validateURLFacebookFirst(u) ==
  IF u.type # "string" \/ u.s = <<>>
  THEN Rejected(URLError(<<"URL must be a non-empty string">>))
  ELSE LET urlLower == toLowerCase(u.s)
       IN IF \/ includes(urlLower, "facebook.com")
             \/ includes(urlLower, "fb.com")
             \/ includes(urlLower, "fb.watch")
          THEN LET n == normalizeFacebookURL(u.s)
               IN IF n.ok THEN Classified("facebook", n.val) ELSE Rejected(n.err)
          ELSE IF includes(urlLower, "instagram.com")
          THEN Classified("instagram", normalizeInstagramURL(u.s).val)
          ELSE Rejected(URLError(<<"Unsupported platform. Only Instagram and Facebook are supported">>))

\* validateURL(url): u is a JavaScript value, [type, s] with s its text when
\* it is a string.
validateURL(u) ==
  IF u.type # "string" \/ u.s = <<>>
  THEN Rejected(URLError(<<"URL must be a non-empty string">>))
  ELSE LET urlLower == toLowerCase(u.s)
       IN IF includes(urlLower, "instagram.com")
          THEN Classified("instagram", normalizeInstagramURL(u.s).val)
          ELSE IF \/ includes(urlLower, "facebook.com")
                  \/ includes(urlLower, "fb.com")
                  \/ includes(urlLower, "fb.watch")
          THEN LET n == normalizeFacebookURL(u.s)
               IN IF n.ok THEN Classified("facebook", n.val) ELSE Rejected(n.err)
          ELSE Rejected(URLError(<<"Unsupported platform. Only Instagram and Facebook are supported">>))

\* The normalizer validateURL applies for platform p.
Normalize(p, s) ==
  IF p = "instagram" THEN normalizeInstagramURL(s) ELSE normalizeFacebookURL(s)

\* --------------------------------------------------- identifier extraction

NoMatch == [found |-> FALSE, group |-> <<>>]
Match(g) == [found |-> TRUE, group |-> g]

Min(S) == CHOOSE x \in S : \A y \in S : x <= y
Max(S) == CHOOSE x \in S : \A y \in S : x >= y

\* s holds the literal token sequence lit at position k.
LiteralAt(s, k, lit) ==
  /\ k >= 1
  /\ k + Len(lit) - 1 <= Len(s)
  /\ \A j \in 1..Len(lit) : s[k + j - 1] = lit[j]

\* What [^/?]+ matches at position k: the text up to the next '/' or '?'.
Segment(s, k) ==
  LET rest == SubSeq(s, k, Len(s))
      e == FirstIndex(rest, {"/", "?"})
  IN IF e = 0 THEN rest ELSE SubSeq(rest, 1, e - 1)

\* What \d+ matches at position k: the run of digits that starts there.
RECURSIVE DigitRun(_, _)
DigitRun(s, k) ==
  IF k <= Len(s) /\ s[k] = "12345" THEN <<s[k]>> \o DigitRun(s, k + 1) ELSE <<>>

\* url.match(/lit([^/?]+)/): the group of the leftmost match.
MatchSegment(s, lit) ==
  LET K == {k \in DOMAIN s : LiteralAt(s, k, lit) /\ Segment(s, k + Len(lit)) # <<>>}
  IN IF K = {} THEN NoMatch ELSE Match(Segment(s, Min(K) + Len(lit)))

\* url.match(/lit(\d+)/) for the alternatives lits of one pattern.
MatchDigits(s, lits) ==
  LET K == {k \in DOMAIN s :
              \E lit \in lits : LiteralAt(s, k, lit) /\ DigitRun(s, k + Len(lit)) # <<>>}
  IN IF K = {} THEN NoMatch
     ELSE LET k == Min(K)
              lit == CHOOSE l \in lits : LiteralAt(s, k, l) /\ DigitRun(s, k + Len(l)) # <<>>
          IN Match(DigitRun(s, k + Len(lit)))

\* url.match(/facebook\.com\/.*\/videos\/(\d+)/): the greedy .* takes the
\* last /videos/<digits> after the leftmost facebook.com/.
MatchVideos(s) ==
  LET Ends(k) == {m \in DOMAIN s : m >= k + 2 /\ LiteralAt(s, m, <<"/", "videos", "/">>)
                                     /\ DigitRun(s, m + 3) # <<>>}
      K == {k \in DOMAIN s : LiteralAt(s, k, <<"facebook.com", "/">>) /\ Ends(k) # {}}
  IN IF K = {} THEN NoMatch ELSE Match(DigitRun(s, Max(Ends(Min(K))) + 3))

\* The first pattern of the list that matches wins.
RECURSIVE FirstMatch(_)
FirstMatch(ms) ==
  IF ms = <<>> THEN NoMatch
  ELSE IF ms[1].found THEN ms[1] ELSE FirstMatch(Tail(ms))

\* extractInstagramShortcode(url)
extractInstagramShortcode(s) ==
  FirstMatch(<<MatchSegment(s, <<"instagram.com", "/", "p", "/">>),
               MatchSegment(s, <<"instagram.com", "/", "reel", "/">>),
               MatchSegment(s, <<"instagram.com", "/", "tv", "/">>)>>)

\* extractFacebookVideoId(url)
extractFacebookVideoId(s) ==
  FirstMatch(<<MatchDigits(s, {<<"facebook.com", "/", "watch", "?", "v=">>,
                               <<"facebook.com", "/", "watch", "/", "?", "v=">>}),
               MatchVideos(s),
               MatchSegment(s, <<"fb.watch", "/">>),
               MatchDigits(s, {<<"facebook.com", "/", "video.php", "?", "v=">>})>>)

\* ------------------------------------------------------------ configuration

DefaultUserAgent ==
  "Mozilla/5.0 (Windows NT 10.0; Win64; x64) AppleWebKit/537.36 (KHTML, like Gecko) Chrome/120.0.0.0 Safari/537.36"
DefaultTimeout == 10000
DefaultRetries == 3
DefaultRetryDelay == 1000
DefaultProxy == ""
DefaultCookies == ""

\* A field of ScraperConfig: left unset, or given the value v.
Unset == [set |-> FALSE, v |-> 0]
UnsetText == [set |-> FALSE, v |-> ""]
Given(v) == [set |-> TRUE, v |-> v]

\* config.field || d: the default d replaces an unset field and a zero.
OrDefault(field, d) == IF field.set /\ field.v # 0 THEN field.v ELSE d

\* config.field || d for a text field: the default d replaces an unset field
\* and the empty string.
OrDefaultText(field, d) == IF field.set /\ field.v # "" THEN field.v ELSE d

\* The effective configuration both extractor constructors build.
EffectiveConfig(config) ==
  [userAgent |-> OrDefaultText(config.userAgent, DefaultUserAgent),
   timeout |-> OrDefault(config.timeout, DefaultTimeout),
   retries |-> OrDefault(config.retries, DefaultRetries),
   retryDelay |-> OrDefault(config.retryDelay, DefaultRetryDelay),
   proxy |-> OrDefaultText(config.proxy, DefaultProxy),
   cookies |-> OrDefaultText(config.cookies, DefaultCookies)]

\* ------------------------------------------------------- text extraction

\* The characters of a text; \w matches the letters and the underscore.
Chars == {"#", "@", "a", "_", " ", "!"}
WordChars == {"a", "_"}

\* What (\w+) matches at position k: the run of word characters from there.
RECURSIVE WordRun(_, _)
WordRun(s, k) ==
  IF k <= Len(s) /\ s[k] \in WordChars THEN <<s[k]>> \o WordRun(s, k + 1) ELSE <<>>

\* text.match(/<sigil>(\w+)/g) from position k on: every match in order,
\* each search starting where the match before it ended.
RECURSIVE matchAll(_, _, _)
matchAll(s, sigil, k) ==
  IF k > Len(s) THEN <<>>
  ELSE LET run == WordRun(s, k + 1)
       IN IF s[k] = sigil /\ run # <<>>
          THEN <<(<<sigil>> \o run)>> \o matchAll(s, sigil, k + 1 + Len(run))
          ELSE matchAll(s, sigil, k + 1)

sliceNothing(tag) == tag

\* tag.slice(1)
slice1(tag) == SubSeq(tag, 2, Len(tag))

\* The body shared by extractHashtags and extractMentions: text is a
\* JavaScript value, [type, s] with s its characters when it is a string.
extractTagged(text, sigil) ==
  IF text.type = "undefined" \/ (text.type = "string" /\ text.s = <<>>) THEN Ok(<<>>)
  ELSE IF text.type # "string" THEN Throw(TypeError(<<"text.match is not a function">>))
  ELSE LET matches == matchAll(text.s, sigil, 1)
       IN Ok([j \in DOMAIN matches |-> slice1(matches[j])])

\* extractHashtags(text)
extractHashtags(text) == extractTagged(text, "#")

\* extractMentions(text)
extractMentions(text) == extractTagged(text, "@")

\* cleanText on the characters of a text: every run of blanks becomes one
\* blank, and the blanks at both ends go.
RECURSIVE collapseBlanks(_)
collapseBlanks(s) ==
  IF Len(s) < 2 THEN s
  ELSE IF s[1] = " " /\ s[2] = " " THEN collapseBlanks(Tail(s))
  ELSE <<s[1]>> \o collapseBlanks(Tail(s))

trim(s) ==
  LET a == IF s # <<>> /\ s[1] = " " THEN Tail(s) ELSE s
  IN IF a # <<>> /\ a[Len(a)] = " " THEN SubSeq(a, 1, Len(a) - 1) ELSE a

\* cleanText(text)
cleanText(text) ==
  IF text.type # "string" \/ text.s = <<>> THEN <<>> ELSE trim(collapseBlanks(text.s))

\* x || '' for an optional text x.
orEmpty(x) == IF x.type = "string" /\ x.s # <<>> THEN x ELSE [type |-> "string", s |-> <<>>]

\* ------------------------------------------------------------ retry wrapper

retryContinuesInclusive(i, retries) == i <= retries

\* for (let i = 0; i < retries; i++)
retryContinues(i, retries) == i < retries

\* if (i < retries - 1)
retrySleeps(i, retries) == i < retries - 1

backoffConstant(delay, i) == delay

\* sleep(delay * (i + 1))
backoff(delay, i) == delay * (i + 1)

\* ---------------------------------------------------------------- metadata

Absent == "undefined"

\* JavaScript truthiness of an optional string.
Truthy(v) == v \notin {Absent, ""}

VideoUrls == {"cdn1", "cdn2"}
OptVideoUrls == VideoUrls \cup {Absent}

Metadata(platform, type, u, videoUrl) ==
  [platform |-> platform, type |-> type, url |-> u, videoUrl |-> videoUrl]

\* `{} as VideoMetadata`: an object none of whose fields is set.
EmptyMetadata == Metadata(Absent, Absent, <<>>, Absent)

\* The null a strategy returns for "no result".
Null == Metadata("null", "null", <<>>, Absent)

\* Outcome of a function whose value is a strategy result.
Returns(v) == [ok |-> TRUE, val |-> v, err |-> Undefined]
Throws(e) == [ok |-> FALSE, val |-> Null, err |-> e]

\* One strategy run of an attempt: what it yielded (Null for no result) and
\* what it met on the way: "not-a-video" when a parser threw the not-a-video
\* ParseError, "failed" when its request failed, "none" otherwise.
Tried(strategy, val, note) == [strategy |-> strategy, val |-> val, note |-> note]

\* An outcome together with the strategies that ran to produce it.
WithRan(out, tried) == [ok |-> out.ok, val |-> out.val, err |-> out.err, ran |-> tried]

\* ------------------------------------------------------ Instagram extractor

\* parseAPIResponse(item, url)
parseAPIResponse(item, u) ==
  LET isVideo == item.mediaType2 \/ item.clips
  IN IF ~isVideo
     THEN Throws(ParseError(<<"Post does not contain a video">>, "instagram"))
     ELSE Returns(Metadata("instagram", IF item.clips THEN "reel" ELSE "video",
                           u, item.videoUrl))

\* parseGraphQLResponse(media, url)
parseGraphQLResponse(media, u) ==
  IF ~media.isVideo
  THEN Throws(ParseError(<<"Post does not contain a video">>, "instagram"))
  ELSE Returns(Metadata("instagram", IF media.graphVideo THEN "video" ELSE "reel",
                        u, media.videoUrl))

\* scrapeWithAPI(url), given the response to its request.
scrapeWithAPI(resp, u) ==
  LET body == IF ~resp.ok THEN Throws(PlainError(<<resp.message>>))
              ELSE IF resp.data.items0.present THEN parseAPIResponse(resp.data.items0, u)
              ELSE IF resp.data.media.present THEN parseGraphQLResponse(resp.data.media, u)
              ELSE Returns(Null)
      note == IF ~resp.ok THEN "failed"
              ELSE IF ~body.ok THEN "not-a-video"
              ELSE "none"
      out == IF body.ok THEN body ELSE Returns(Null)
  IN WithRan(out, <<Tried("api", out.val, note)>>)

extractFromJSONLDAsPost(html, u) ==
  IF html.jsonld.kind # "VideoObject" THEN Null
  ELSE Metadata("instagram", "post", u, html.jsonld.contentUrl)

\* extractFromJSONLD(html, url)
extractFromJSONLD(html, u) ==
  IF html.jsonld.kind # "VideoObject" THEN Null
  ELSE Metadata("instagram", "video", u, html.jsonld.contentUrl)

\* extractFromScripts(html, url)
extractFromScripts(html, u) ==
  IF html.shared.present /\ html.shared.isVideo
  THEN parseGraphQLResponse(html.shared, u).val
  ELSE IF html.additional.present /\ html.additional.isVideo
  THEN parseGraphQLResponse(html.additional, u).val
  ELSE Null

extractFromMetaTagsUnchecked(html, u) ==
  Metadata("instagram", "video", u, html.ogVideo)

\* extractFromMetaTags(html, url)
extractFromMetaTags(html, u) ==
  IF ~Truthy(html.ogVideo) THEN Null
  ELSE Metadata("instagram", "video", u, html.ogVideo)

Instagram_scrapeWithHTMLMetaFirst(resp, u) ==
  IF ~resp.ok
  THEN WithRan(Throws(NetworkError(<<"Failed to fetch HTML: ", resp.message>>, "instagram")),
               <<>>)
  ELSE LET html == resp.data
           jsonLdData == IF resp.text THEN extractFromJSONLD(html, u) ELSE Null
           scriptData == IF resp.text THEN extractFromScripts(html, u) ELSE Null
           metaData == IF resp.text THEN extractFromMetaTags(html, u) ELSE Null
       IN IF jsonLdData # Null
          THEN WithRan(Returns(jsonLdData), <<Tried("jsonld", jsonLdData, "none")>>)
          ELSE IF metaData # Null
          THEN WithRan(Returns(metaData),
                       <<Tried("jsonld", Null, "none"), Tried("meta", metaData, "none")>>)
          ELSE WithRan(Returns(scriptData),
                       <<Tried("jsonld", Null, "none"), Tried("meta", Null, "none"),
                         Tried("scripts", scriptData, "none")>>)

\* InstagramScraper.scrapeWithHTML(url), given the response to its request.
\* A body that is not text makes html.match and cheerio.load throw inside
\* each extractor, whose own try/catch turns that into null.
Instagram_scrapeWithHTML(resp, u) ==
  IF ~resp.ok
  THEN WithRan(Throws(NetworkError(<<"Failed to fetch HTML: ", resp.message>>, "instagram")),
               <<>>)
  ELSE LET html == resp.data
           jsonLdData == IF resp.text THEN extractFromJSONLD(html, u) ELSE Null
           scriptData == IF resp.text THEN extractFromScripts(html, u) ELSE Null
           metaData == IF resp.text THEN extractFromMetaTags(html, u) ELSE Null
       IN IF jsonLdData # Null
          THEN WithRan(Returns(jsonLdData), <<Tried("jsonld", jsonLdData, "none")>>)
          ELSE IF scriptData # Null
          THEN WithRan(Returns(scriptData),
                       <<Tried("jsonld", Null, "none"), Tried("scripts", scriptData, "none")>>)
          ELSE WithRan(Returns(metaData),
                       <<Tried("jsonld", Null, "none"), Tried("scripts", Null, "none"),
                         Tried("meta", metaData, "none")>>)

\* ------------------------------------------------------- Facebook extractor

\* url.replace('www.facebook.com', 'm.facebook.com'): the first occurrence.
toMobile(u) ==
  LET K == {k \in DOMAIN u : LiteralAt(u, k, <<"www.", "facebook.com">>)}
  IN IF K = {} THEN u ELSE [u EXCEPT ![Min(K)] = "m."]

\* FacebookScraper.scrapeWithHTML(url) and scrapeWithMobileSite(url), given
\* the response to the request: the page's first video source, if any.
Facebook_scrapePage(resp, u) ==
  LET body == IF ~resp.ok THEN Throws(PlainError(<<resp.message>>))
              ELSE IF ~Truthy(resp.videoSource) THEN Returns(Null)
              ELSE Returns(Metadata("facebook", "video", u, resp.videoSource))
  IN IF body.ok THEN body ELSE Returns(Null)

Facebook_scrapeWithHTML(resp, u) ==
  LET out == Facebook_scrapePage(resp, u)
  IN WithRan(out, <<Tried("full", out.val, IF resp.ok THEN "none" ELSE "failed")>>)

Facebook_scrapeWithMobileSiteOwnUrl(resp, u) ==
  LET out == Facebook_scrapePage(resp, toMobile(u))
  IN WithRan(out, <<Tried("mobile", out.val, IF resp.ok THEN "none" ELSE "failed")>>)

Facebook_scrapeWithMobileSite(resp, u) ==
  LET out == Facebook_scrapePage(resp, u)
  IN WithRan(out, <<Tried("mobile", out.val, IF resp.ok THEN "none" ELSE "failed")>>)

\* scrapeWithGraphAPI(videoId)
scrapeWithGraphAPI(videoId) == Null

\* -------------------------------------------------------- built records

\* The part of a record that is derived from texts and page probes.
NoEnrichment == [caption |-> <<>>, hashtags |-> <<>>, mentions |-> <<>>, isLive |-> Absent]

\* caption: cleanText(captionSource), hashtags: extractHashtags(tagSource),
\* mentions: extractMentions(tagSource)
Enrichment(captionSource, tagSource) ==
  [caption |-> cleanText(captionSource), hashtags |-> extractHashtags(tagSource).val,
   mentions |-> extractMentions(tagSource).val, isLive |-> Absent]

\* parseAPIResponse: caption, hashtags and mentions from item.caption?.text
parseAPIResponse_enrich(item) ==
  Enrichment(orEmpty(item.captionText), orEmpty(item.captionText))

\* parseGraphQLResponse: caption, hashtags and mentions from the first
\* caption edge
parseGraphQLResponse_enrich(media) ==
  LET caption == orEmpty(media.captionText)
  IN Enrichment(caption, caption)

\* extractFromJSONLD: caption from data.description || data.caption,
\* hashtags and mentions from data.description
extractFromJSONLD_enrich(data) ==
  Enrichment(orEmpty(IF orEmpty(data.description).s # <<>> THEN data.description
                     ELSE data.captionText),
             orEmpty(data.description))

\* extractFromMetaTags: caption, hashtags and mentions from og:description
extractFromMetaTags_enrich(page) ==
  LET caption == orEmpty(page.description)
  IN Enrichment(caption, caption)

\* extractMetadataFromHTML: isLive from the two probes on the page
extractMetadataFromHTML_enrich(page) ==
  [NoEnrichment EXCEPT !.isLive = IF page.isLiveMarker \/ page.broadcastLive
                                  THEN "true" ELSE "false"]

\* ------------------------------------------------------------ facade values

NoBuffer == [present |-> FALSE, from |-> Absent]
\* Buffer.from(response.data) of the request to videoUrl.
BufferFrom(videoUrl) == [present |-> TRUE, from |-> videoUrl]

NoErrorField == [present |-> FALSE, message |-> <<>>]

\* { success: true, metadata, buffer }
DownloadSuccess(metadata, buffer) ==
  [success |-> TRUE, metadata |-> metadata, buffer |-> buffer, error |-> NoErrorField]

DownloadFailureNoMessage(message) ==
  [success |-> FALSE, metadata |-> EmptyMetadata, buffer |-> NoBuffer,
   error |-> NoErrorField]

\* { success: false, metadata: {}, error: message }
DownloadFailure(message) ==
  [success |-> FALSE, metadata |-> EmptyMetadata, buffer |-> NoBuffer,
   error |-> [present |-> TRUE, message |-> message]]

\* How a call ends: it returns val, or throws (rejects with) err.
NoResult == [kind |-> "none", val |-> <<>>, err |-> Undefined]
Return(v) == [kind |-> "return", val |-> v, err |-> Undefined]
Raise(e) == [kind |-> "throw", val |-> <<>>, err |-> e]

\* The catch block of SocialMediaScraper.download: reading .message of a
\* thrown undefined raises a TypeError out of the catch block.
FacadeCatch(error) ==
  IF error = Undefined
  THEN Raise(TypeError(<<"Cannot read properties of undefined (reading 'message')">>))
  ELSE Return(DownloadFailure(error.message))

isSupportedRethrows(u) ==
  LET c == validateURL(u)
  IN IF c.ok THEN Return(TRUE)
     ELSE IF c.err.name = "URLError" THEN Return(FALSE)
     ELSE Raise(c.err)

\* SocialMediaScraper.isSupported(url)
isSupported(u) == Return(validateURL(u).ok)

getVideoURLUnchecked(metadata) == Return(metadata.videoUrl)

\* SocialMediaScraper.getVideoURL(url), once getMetadata has resolved.
getVideoURLResult(metadata) ==
  IF ~Truthy(metadata.videoUrl) THEN Raise(PlainError(<<"Video URL not found">>))
  ELSE Return(metadata.videoUrl)

ScraperForSwapped(platform) ==
  CASE platform = "instagram" -> "facebook"
    [] platform = "facebook" -> "instagram"
    [] OTHER -> "unsupported"

\* switch (platform): the extractor the facade hands the URL to.
ScraperFor(platform) ==
  CASE platform = "instagram" -> "instagram"
    [] platform = "facebook" -> "facebook"
    [] OTHER -> "unsupported"

\* --------------------------------------------------------- enumerated inputs

SeqsUpTo(S, n) == UNION {[1..k -> S] : k \in 0..n}

Schemes == {<<>>, <<"https://">>}

HostTokens ==
  {"instagram.com", "INSTAGRAM.COM", "facebook.com", "fb.com", "fb.watch",
   "FB.WATCH", "example.com"}

Hosts == {<<>>} \cup {<<h>> : h \in HostTokens}

TailTokens == {"/", "?", "&", "#", "v=", "%26", "12345", "fb.watch", "instagram.com"}

\* Values that are not strings: undefined/null, a number, an object.
NonStrings == {[type |-> t, s |-> <<>>] : t \in {"undefined", "number", "object"}}

Str(s) == [type |-> "string", s |-> s]

\* The inputs of the classifier on its own.
URLInputs ==
  NonStrings \cup
  {Str(sc \o h \o t) : sc \in Schemes, h \in Hosts, t \in SeqsUpTo(TailTokens, MaxTail)}

\* The URLs handed to the facade.
FacadeURLs ==
  {[type |-> "undefined", s |-> <<>>],
   Str(<<>>),
   Str(<<"https://", "example.com", "/", "abc">>),
   Str(<<"https://", "www.", "instagram.com", "/", "p", "/", "abc">>),
   Str(<<"https://", "www.", "instagram.com", "/", "reel", "/", "abc", "/", "?", "abc">>),
   Str(<<"https://", "www.", "instagram.com", "/", "abc", "/">>),
   Str(<<"https://", "www.", "facebook.com", "/", "watch", "/", "?", "v=", "12345", "&", "abc">>),
   Str(<<"facebook.com", "/", "watch", "?", "v=", "12345">>),
   Str(<<"https://", "www.", "facebook.com", "/", "abc">>),
   Str(<<"https://", "www.", "facebook.com", "/", "abc", "/", "videos", "/", "12345", "/">>),
   Str(<<"https://", "fb.watch", "/", "abc", "/">>)}

\* ScraperConfig objects given to the constructor of the facade whose calls
\* are followed: the fields no call reads are left unset.
Configs ==
  [userAgent : {UnsetText}, timeout : {Unset},
   retries : {Unset} \cup {Given(n) : n \in (-1)..MaxRetries},
   retryDelay : {Unset, Given(0), Given(500)},
   proxy : {UnsetText}, cookies : {UnsetText}]

\* ScraperConfig objects given to a constructor on its own.
ConfigInputs ==
  [userAgent : {UnsetText, Given(""), Given("custom-agent")},
   timeout : {Unset, Given(0), Given(5000)},
   retries : {Unset} \cup {Given(n) : n \in (-1)..MaxRetries},
   retryDelay : {Unset, Given(0), Given(500)},
   proxy : {UnsetText, Given(""), Given("http://proxy")},
   cookies : {UnsetText, Given(""), Given("sessionid")}]

\* DownloadOptions: the `options = {}` of a call that passes none.
NoOptions == [quality |-> Absent, includeAudio |-> Absent, timeout |-> Unset, headers |-> {}]

\* DownloadOptions a caller passes.
CustomOptions ==
  [quality |-> "low", includeAudio |-> "false", timeout |-> Given(5000),
   headers |-> {<<"Custom-Header", "value">>}]

\* The options of the concurrent download calls.
FacadeOptions == {NoOptions, CustomOptions}

\* Optional texts found in the data of a post: missing, empty, or some text.
OptTexts ==
  {[type |-> "undefined", s |-> <<>>]} \cup
  {Str(s) : s \in {<<>>, <<"a">>, <<"a", "!">>, <<"#", "a">>, <<"@", "a", " ", "#", "a">>,
                   <<" ", "#", "a", " ", " ", "#", "_">>}}

Missing == [type |-> "undefined", s |-> <<>>]

\* No strategy has found anything yet.
NoPayload ==
  [strategy |-> "none", captionText |-> Missing, description |-> Missing,
   isLiveMarker |-> FALSE, broadcastLive |-> FALSE]

\* What a strategy found and builds its record from: the caption text of an
\* API item or of a GraphQL media object, the description and the caption of
\* a JSON-LD block, the og:description of a page, the live markers of a
\* Facebook page.
Payloads ==
  {[NoPayload EXCEPT !.strategy = s, !.captionText = c] :
     s \in {"api", "graphql", "scripts"}, c \in OptTexts}
  \cup {[NoPayload EXCEPT !.strategy = "jsonld", !.description = d, !.captionText = c] :
          d \in OptTexts, c \in OptTexts}
  \cup {[NoPayload EXCEPT !.strategy = "meta", !.description = d] : d \in OptTexts}
  \cup {[NoPayload EXCEPT !.strategy = s, !.isLiveMarker = a, !.broadcastLive = b] :
          s \in {"full", "mobile"}, a \in BOOLEAN, b \in BOOLEAN}

\* What the HTTP collaborator can answer.
TransportMessages == {"timeout", "status 404"}

NoItem == [present |-> FALSE, mediaType2 |-> FALSE, clips |-> FALSE, videoUrl |-> Absent]
NoMedia == [present |-> FALSE, isVideo |-> FALSE, graphVideo |-> FALSE, videoUrl |-> Absent]

Items == [present : {TRUE}, mediaType2 : BOOLEAN, clips : BOOLEAN, videoUrl : OptVideoUrls]
Media == [present : {TRUE}, isVideo : BOOLEAN, graphVideo : BOOLEAN, videoUrl : OptVideoUrls]

ApiData ==
  {[items0 |-> NoItem, media |-> NoMedia]}
  \cup {[items0 |-> it, media |-> NoMedia] : it \in Items}
  \cup {[items0 |-> NoItem, media |-> m] : m \in Media}
  \cup {[items0 |-> [present |-> TRUE, mediaType2 |-> FALSE, clips |-> FALSE, videoUrl |-> Absent],
          media |-> [present |-> TRUE, isVideo |-> TRUE, graphVideo |-> TRUE, videoUrl |-> "cdn2"]]}

NoData == [items0 |-> NoItem, media |-> NoMedia]

ApiResponses ==
  {[ok |-> FALSE, message |-> m, data |-> NoData] : m \in TransportMessages}
  \cup {[ok |-> TRUE, message |-> "", data |-> d] : d \in ApiData}

JsonLd ==
  {[kind |-> "absent", contentUrl |-> Absent], [kind |-> "Other", contentUrl |-> Absent]}
  \cup {[kind |-> "VideoObject", contentUrl |-> v] : v \in OptVideoUrls}

SharedMedia ==
  {NoMedia, [present |-> TRUE, isVideo |-> FALSE, graphVideo |-> FALSE, videoUrl |-> Absent]}
  \cup {[present |-> TRUE, isVideo |-> TRUE, graphVideo |-> TRUE, videoUrl |-> "cdn1"],
        [present |-> TRUE, isVideo |-> TRUE, graphVideo |-> FALSE, videoUrl |-> Absent]}

AdditionalMedia ==
  {NoMedia, [present |-> TRUE, isVideo |-> FALSE, graphVideo |-> FALSE, videoUrl |-> Absent],
   [present |-> TRUE, isVideo |-> TRUE, graphVideo |-> TRUE, videoUrl |-> "cdn2"]}

Pages ==
  [jsonld : JsonLd, shared : SharedMedia, additional : AdditionalMedia, ogVideo : OptVideoUrls]

NoPage ==
  [jsonld |-> [kind |-> "absent", contentUrl |-> Absent], shared |-> NoMedia,
   additional |-> NoMedia, ogVideo |-> Absent]

\* text is FALSE when the body is not text (the client parsed it as JSON).
InstagramPageResponses ==
  {[ok |-> FALSE, message |-> m, text |-> FALSE, data |-> NoPage] : m \in TransportMessages}
  \cup {[ok |-> TRUE, message |-> "", text |-> FALSE, data |-> NoPage]}
  \cup {[ok |-> TRUE, message |-> "", text |-> TRUE, data |-> d] : d \in Pages}

FacebookPageResponses ==
  {[ok |-> FALSE, message |-> m, videoSource |-> Absent] : m \in TransportMessages}
  \cup {[ok |-> TRUE, message |-> "", videoSource |-> v] : v \in OptVideoUrls}

BinaryResponses ==
  {[ok |-> FALSE, message |-> m] : m \in TransportMessages} \cup {[ok |-> TRUE, message |-> ""]}

\* ------------------------------------------------------------------- state

VARIABLES
  config,      \* the ScraperConfig given to the SocialMediaScraper constructor
  igConfig,    \* InstagramScraper.config
  fbConfig,    \* FacebookScraper.config
  nCalls,      \* calls started on the instance so far
  op,          \* the method being called
  url,         \* the value passed as url
  pc,          \* position of the running call
  cls,         \* what validateURL(url) returned or threw
  renorm,      \* the platform's normalizer applied to the normalized URL
  recls,       \* validateURL applied to the normalized URL
  fails,       \* leading failures of the operation handed to retry on its own
  fn,          \* retry: the operation it wraps
  retries,     \* retry: its retries argument
  delay,       \* retry: its delay argument
  i,           \* retry: loop counter
  lastError,   \* retry: lastError
  calls,       \* retry: invocations of fn so far
  waits,       \* retry: the sleeps made so far, in order
  phase,       \* whose scrape runs: the facade's or Extractor download's
  scrapeUrl,   \* the url argument of the running scrape
  metadata,    \* download: the facade's metadata
  dlMetadata,  \* Extractor download: its metadata
  dlOutcome,   \* Extractor download: how it settled
  ran,         \* the strategies the running attempt has run, in order
  requests,    \* HTTP requests issued by the call so far
  trace,       \* extractor methods entered and payloads fetched, in order
  options,     \* download: the DownloadOptions passed by the caller
  sent,        \* the HTTP requests the call has issued, in order
  outcome,     \* how the call ended
  slots,       \* concurrent calls on one instance: the state of each caller's call
  feeds,       \* concurrent calls: the responses each caller's call has received
  text,        \* the value passed to extractHashtags and extractMentions
  hashtags,    \* what extractHashtags(text) returned or threw
  mentions,    \* what extractMentions(text) returned or threw
  payload,     \* the data a strategy found, from which it builds its record
  enriched     \* the caption, hashtags, mentions and live flag of the record built

instanceVars == <<config, igConfig, fbConfig>>
harnessVars == <<renorm, recls, fails>>
callVars ==
  <<op, url, pc, cls, fn, retries, delay, i, lastError, calls, waits, phase,
    scrapeUrl, metadata, dlMetadata, dlOutcome, ran, requests, trace, options, sent,
    outcome>>
pairVars == <<slots, feeds>>
textVars == <<text, hashtags, mentions, payload, enriched>>
vars == <<instanceVars, nCalls, harnessVars, callVars, pairVars, textVars>>

NoOutcome == [ok |-> FALSE, val |-> <<>>, err |-> Undefined]
NoClass == Rejected(Undefined)
NoConfig ==
  [userAgent |-> UnsetText, timeout |-> Unset, retries |-> Unset, retryDelay |-> Unset,
   proxy |-> UnsetText, cookies |-> UnsetText]
\* The config field of an extractor that is not constructed yet.
NotConstructed ==
  [userAgent |-> Absent, timeout |-> 0, retries |-> 0, retryDelay |-> 0,
   proxy |-> Absent, cookies |-> Absent]

\* The state of one call, as a record.
Fresh(o, u, c) ==
  [op |-> o, url |-> u, pc |-> "idle", cls |-> c, fn |-> "none", retries |-> 0,
   delay |-> 0, i |-> 0, lastError |-> Undefined, calls |-> 0, waits |-> <<>>,
   phase |-> "facade", scrapeUrl |-> <<>>, metadata |-> EmptyMetadata,
   dlMetadata |-> EmptyMetadata, dlOutcome |-> NoResult, ran |-> <<>>,
   requests |-> 0, trace |-> <<>>, options |-> NoOptions, sent |-> <<>>,
   outcome |-> NoResult]

Cur ==
  [op |-> op, url |-> url, pc |-> pc, cls |-> cls, fn |-> fn, retries |-> retries,
   delay |-> delay, i |-> i, lastError |-> lastError, calls |-> calls, waits |-> waits,
   phase |-> phase, scrapeUrl |-> scrapeUrl, metadata |-> metadata,
   dlMetadata |-> dlMetadata, dlOutcome |-> dlOutcome, ran |-> ran,
   requests |-> requests, trace |-> trace, options |-> options, sent |-> sent,
   outcome |-> outcome]

Becomes(st) ==
  /\ op' = st.op /\ url' = st.url /\ pc' = st.pc /\ cls' = st.cls /\ fn' = st.fn
  /\ retries' = st.retries /\ delay' = st.delay /\ i' = st.i
  /\ lastError' = st.lastError /\ calls' = st.calls /\ waits' = st.waits
  /\ phase' = st.phase /\ scrapeUrl' = st.scrapeUrl /\ metadata' = st.metadata
  /\ dlMetadata' = st.dlMetadata /\ dlOutcome' = st.dlOutcome /\ ran' = st.ran
  /\ requests' = st.requests /\ trace' = st.trace /\ options' = st.options
  /\ sent' = st.sent /\ outcome' = st.outcome

CallIs(st) ==
  /\ op = st.op /\ url = st.url /\ pc = st.pc /\ cls = st.cls /\ fn = st.fn
  /\ retries = st.retries /\ delay = st.delay /\ i = st.i
  /\ lastError = st.lastError /\ calls = st.calls /\ waits = st.waits
  /\ phase = st.phase /\ scrapeUrl = st.scrapeUrl /\ metadata = st.metadata
  /\ dlMetadata = st.dlMetadata /\ dlOutcome = st.dlOutcome /\ ran = st.ran
  /\ requests = st.requests /\ trace = st.trace /\ options = st.options
  /\ sent = st.sent /\ outcome = st.outcome

\* The callers that use one instance at the same time.
Callers == {"a", "b"}

NoSlots == [c \in Callers |-> Fresh("none", Str(<<>>), NoClass)]
NoFeeds == [c \in Callers |-> <<>>]

\* No text has been handed to the text extractors.
NoText ==
  /\ text = [type |-> "undefined", s |-> <<>>]
  /\ hashtags = NoOutcome /\ mentions = NoOutcome
  /\ payload = NoPayload /\ enriched = NoEnrichment

\* ------------------------------------------------- control flow of one call

Event(ev, who, u) == [ev |-> ev, who |-> who, url |-> u]

ConfigOf(who) == IF who = "instagram" THEN igConfig ELSE fbConfig

\* A request handed to an extractor's client: the headers are the ones the
\* call adds to the client's defaults, the user agent and the timeout are the
\* client's unless the call sets its own.
Request(to, timeout, userAgent, headers, responseType) ==
  [url |-> to, timeout |-> timeout, userAgent |-> userAgent, headers |-> headers,
   responseType |-> responseType]

\* this.client.get(`${url}?__a=1&__d=dis`, ...) of scrapeWithAPI
Instagram_apiRequest(u) ==
  Request(u \o <<"?", "__a=1&__d=dis">>, igConfig.timeout, igConfig.userAgent,
          {<<"X-Requested-With", "XMLHttpRequest">>,
           <<"Referer", "https://www.instagram.com/">>}, "default")

\* this.client.get(url) of InstagramScraper.scrapeWithHTML
Instagram_pageRequest(u) ==
  Request(u, igConfig.timeout, igConfig.userAgent, {}, "default")

\* this.client.get(url, { headers: { Cookie } }) of FacebookScraper.scrapeWithHTML
Facebook_pageRequest(u) ==
  Request(u, fbConfig.timeout, fbConfig.userAgent, {<<"Cookie", fbConfig.cookies>>},
          "default")

MobileUserAgent ==
  "Mozilla/5.0 (iPhone; CPU iPhone OS 14_0 like Mac OS X) AppleWebKit/605.1.15 (KHTML, like Gecko) Version/14.0 Mobile/15E148 Safari/604.1"

\* this.client.get(mobileUrl, { headers: { 'User-Agent' } }) of scrapeWithMobileSite
Facebook_mobileRequest(u) ==
  Request(toMobile(u), fbConfig.timeout, MobileUserAgent, {}, "default")

\* The timeout of the binary request of Extractor download.
BinaryTimeout == 30000

BinaryRequestFromOptions(st, videoUrl) ==
  Request(<<videoUrl>>, OrDefault(st.options.timeout, BinaryTimeout),
          ConfigOf(st.fn).userAgent, st.options.headers, "arraybuffer")

\* this.client.get(metadata.videoUrl, { responseType, timeout }) of download
BinaryRequest(st, videoUrl) ==
  Request(<<videoUrl>>, BinaryTimeout, ConfigOf(st.fn).userAgent, {}, "arraybuffer")

\* The call st sends request r.
Send(st, r) == [st EXCEPT !.requests = @ + 1, !.sent = Append(@, r)]

\* The call ends with outcome out.
Finish(st, out) == [st EXCEPT !.pc = "done", !.outcome = out]

\* Extractor download rejects with e: only the facade's download calls it.
DownloadThrows(st, e) == Finish([st EXCEPT !.dlOutcome = Raise(e)], FacadeCatch(e))

\* The awaited scrape rejects with e.  getMetadata and getVideoURL let it
\* pass; download catches it, in the facade or after Extractor download let
\* it pass.
ScrapeThrows(st, e) ==
  IF st.phase = "extractor" THEN DownloadThrows(st, e)
  ELSE IF st.op = "download" THEN Finish(st, FacadeCatch(e))
  ELSE Finish(st, Raise(e))

\* retry rejects with e.
RetryRaises(st, e) ==
  IF st.fn = "scripted" THEN Finish(st, Raise(e)) ELSE ScrapeThrows(st, e)

\* retry calls fn(): the scripted operation, or the strategy chain of an
\* extractor, which starts by sending its first request.
InvokeFn(st) ==
  CASE st.fn = "scripted" -> [st EXCEPT !.calls = @ + 1, !.pc = "r_fn"]
    [] st.fn = "instagram" ->
         Send([st EXCEPT !.calls = @ + 1, !.pc = "ig_api", !.ran = <<>>],
              Instagram_apiRequest(st.scrapeUrl))
    [] st.fn = "facebook" ->
         Send([st EXCEPT !.calls = @ + 1, !.pc = "fb_html", !.ran = <<>>],
              Facebook_pageRequest(st.scrapeUrl))

\* The head of retry's loop; after the loop, `throw lastError`.
RetryLoop(st) ==
  IF retryContinues(st.i, st.retries) THEN InvokeFn(st)
  ELSE RetryRaises(st, st.lastError)

RetryEnterAtLeastOnce(st, f, n, d) ==
  RetryLoop([st EXCEPT !.fn = f, !.retries = IF n < 1 THEN 1 ELSE n, !.delay = d, !.i = 0,
                       !.lastError = Undefined, !.calls = 0, !.waits = <<>>])

\* retry(f, n, d) is called.
RetryEnter(st, f, n, d) ==
  RetryLoop([st EXCEPT !.fn = f, !.retries = n, !.delay = d, !.i = 0,
                       !.lastError = Undefined, !.calls = 0, !.waits = <<>>])

RetryCatchKeepsFirst(st, e) ==
  LET kept == IF st.lastError = Undefined THEN e ELSE st.lastError
  IN IF retrySleeps(st.i, st.retries)
     THEN [st EXCEPT !.lastError = kept, !.pc = "sleep",
                     !.waits = Append(@, backoff(st.delay, st.i))]
     ELSE RetryLoop([st EXCEPT !.lastError = kept, !.i = @ + 1])

\* fn() rejected with e: retry's catch block, up to its sleep if it sleeps.
RetryCatch(st, e) ==
  IF retrySleeps(st.i, st.retries)
  THEN [st EXCEPT !.lastError = e, !.pc = "sleep",
                  !.waits = Append(@, backoff(st.delay, st.i))]
  ELSE RetryLoop([st EXCEPT !.lastError = e, !.i = @ + 1])

RetrySleepDoneNever(st) == st

\* The sleep of the catch block is over: i++ and the loop goes on.
RetrySleepDone(st) == RetryLoop([st EXCEPT !.i = @ + 1])

ScrapeBeginUnchecked(st, who, u) ==
  RetryEnter([st EXCEPT !.scrapeUrl = u, !.trace = Append(@, Event("scrape", who, u))],
             who, ConfigOf(who).retries, ConfigOf(who).retryDelay)

\* scrape(u) of extractor who is called.
ScrapeBegin(st, who, u) ==
  LET st1 == [st EXCEPT !.scrapeUrl = u, !.trace = Append(@, Event("scrape", who, u))]
      id == IF who = "instagram" THEN extractInstagramShortcode(u)
            ELSE extractFacebookVideoId(u)
  IN IF ~id.found
     THEN ScrapeThrows(st1, ParseError(
            IF who = "instagram" THEN <<"Could not extract shortcode from URL">>
            ELSE <<"Could not extract video ID from URL">>, who))
     ELSE RetryEnter(st1, who, ConfigOf(who).retries, ConfigOf(who).retryDelay)

ExtractorDownloadCached(st, who, u) ==
  IF Truthy(st.metadata.videoUrl)
  THEN Send([st EXCEPT !.phase = "extractor", !.dlMetadata = st.metadata, !.pc = "binary",
                       !.trace = Append(@, Event("download", who, u))],
            BinaryRequest(st, st.metadata.videoUrl))
  ELSE ScrapeBegin([st EXCEPT !.phase = "extractor",
                              !.trace = Append(@, Event("download", who, u))], who, u)

\* download(u) of extractor who is called: it starts with its own scrape.
ExtractorDownload(st, who, u) ==
  ScrapeBegin([st EXCEPT !.phase = "extractor",
                         !.trace = Append(@, Event("download", who, u))], who, u)

MissingVideoUrlNever(md) == FALSE

\* if (!metadata.videoUrl) of Extractor download
MissingVideoUrl(md) == ~Truthy(md.videoUrl)

\* The awaited scrape resolves with record md.
ScrapeReturns(st, md) ==
  IF st.phase = "extractor"
  THEN IF MissingVideoUrl(md)
       THEN DownloadThrows([st EXCEPT !.dlMetadata = md],
                           ParseError(<<"Video URL not found">>, st.fn))
       ELSE Send([st EXCEPT !.dlMetadata = md, !.pc = "binary"],
                 BinaryRequest(st, md.videoUrl))
  ELSE CASE st.op = "getMetadata" -> Finish(st, Return(md))
         [] st.op = "getVideoURL" ->
              Finish([st EXCEPT !.metadata = md], getVideoURLResult(md))
         [] st.op = "download" ->
              ExtractorDownload([st EXCEPT !.metadata = md],
                                ScraperFor(st.cls.platform), st.cls.normalizedUrl)

\* retry resolves with v.
RetryReturns(st, v) ==
  IF st.fn = "scripted" THEN Finish(st, Return(v)) ELSE ScrapeReturns(st, v)

DispatchDownloadFirst(st) ==
  LET who == ScraperFor(st.cls.platform)
  IN IF who = "unsupported"
     THEN ScrapeThrows(st, URLError(<<"Unsupported platform">>))
     ELSE IF st.op = "download" THEN ExtractorDownload(st, who, st.cls.normalizedUrl)
     ELSE ScrapeBegin(st, who, st.cls.normalizedUrl)

\* The switch of getMetadata and of download on a classified URL.
Dispatch(st) ==
  LET who == ScraperFor(st.cls.platform)
  IN IF who = "unsupported"
     THEN ScrapeThrows(st, URLError(<<"Unsupported platform">>))
     ELSE ScrapeBegin(st, who, st.cls.normalizedUrl)

BinaryDoneSwallows(st, resp) ==
  LET buffer == IF resp.ok THEN BufferFrom(st.dlMetadata.videoUrl) ELSE NoBuffer
  IN Finish([st EXCEPT !.dlOutcome = Return(buffer),
                       !.trace = Append(@, Event("fetched", st.fn, <<st.dlMetadata.videoUrl>>))],
            Return(DownloadSuccess(st.metadata, buffer)))

\* The binary request of Extractor download is answered.
BinaryDone(st, resp) ==
  IF resp.ok
  THEN LET buffer == BufferFrom(st.dlMetadata.videoUrl)
       IN Finish([st EXCEPT !.dlOutcome = Return(buffer),
                            !.trace = Append(@, Event("fetched", st.fn, <<st.dlMetadata.videoUrl>>))],
                 Return(DownloadSuccess(st.metadata, buffer)))
  ELSE DownloadThrows(st, NetworkError(<<"Failed to download video: ", resp.message>>, st.fn))

\* The request of scrapeWithAPI is answered; the chain runs on to its next
\* request or to the end of the attempt.
OnInstagramApi(st, resp) ==
  LET r == scrapeWithAPI(resp, st.scrapeUrl)
      st1 == [st EXCEPT !.ran = @ \o r.ran]
  IN IF r.val # Null THEN RetryReturns(st1, r.val)
     ELSE Send([st1 EXCEPT !.pc = "ig_html"], Instagram_pageRequest(st.scrapeUrl))

\* The request of InstagramScraper.scrapeWithHTML is answered.
OnInstagramPage(st, resp) ==
  LET r == Instagram_scrapeWithHTML(resp, st.scrapeUrl)
      st1 == [st EXCEPT !.ran = @ \o r.ran]
  IN IF ~r.ok THEN RetryCatch(st1, r.err)
     ELSE IF r.val # Null THEN RetryReturns(st1, r.val)
     ELSE RetryCatch(st1, ParseError(<<"Could not extract video metadata">>, "instagram"))

\* The request of FacebookScraper.scrapeWithHTML is answered.
OnFacebookPage(st, resp) ==
  LET r == Facebook_scrapeWithHTML(resp, st.scrapeUrl)
      st1 == [st EXCEPT !.ran = @ \o r.ran]
  IN IF r.val # Null THEN RetryReturns(st1, r.val)
     ELSE Send([st1 EXCEPT !.pc = "fb_mobile"], Facebook_mobileRequest(st.scrapeUrl))

OnFacebookMobileOtherTag(st, resp) ==
  LET r == Facebook_scrapeWithMobileSite(resp, st.scrapeUrl)
      g == scrapeWithGraphAPI(extractFacebookVideoId(st.scrapeUrl).group)
      st1 == [st EXCEPT !.ran = @ \o r.ran]
      st2 == [st1 EXCEPT !.ran = Append(@, Tried("graph", g, "none"))]
  IN IF r.val # Null THEN RetryReturns(st1, r.val)
     ELSE IF g # Null THEN RetryReturns(st2, g)
     ELSE RetryCatch(st2, ParseError(<<"Could not extract video metadata">>, "instagram"))

\* The request of scrapeWithMobileSite is answered; scrapeWithGraphAPI
\* follows at once when it yields nothing.
OnFacebookMobile(st, resp) ==
  LET r == Facebook_scrapeWithMobileSite(resp, st.scrapeUrl)
      g == scrapeWithGraphAPI(extractFacebookVideoId(st.scrapeUrl).group)
      st1 == [st EXCEPT !.ran = @ \o r.ran]
      st2 == [st1 EXCEPT !.ran = Append(@, Tried("graph", g, "none"))]
  IN IF r.val # Null THEN RetryReturns(st1, r.val)
     ELSE IF g # Null THEN RetryReturns(st2, g)
     ELSE RetryCatch(st2, ParseError(<<"Could not extract video metadata">>, "facebook"))

\* ------------------------------------------------------------ facade actions

Init ==
  /\ config \in Configs
  /\ igConfig = EffectiveConfig(config)
  /\ fbConfig = EffectiveConfig(config)
  /\ nCalls = 0
  /\ slots = NoSlots /\ feeds = NoFeeds
  /\ NoText
  /\ renorm = NoOutcome /\ recls = NoClass /\ fails = 0
  /\ CallIs(Fresh("none", Str(<<>>), NoClass))

\* One call is followed from a freshly constructed instance.
CanCall == pc = "idle" /\ nCalls = 0

Started ==
  /\ nCalls' = nCalls + 1
  /\ UNCHANGED <<instanceVars, harnessVars, pairVars, textVars>>

Step == UNCHANGED <<instanceVars, nCalls, harnessVars, pairVars, textVars>>

\* Method o of the facade is called with u: the call up to its first await.
Enter(o, u, opts) ==
  LET c == validateURL(u)
      st == [Fresh(o, u, c) EXCEPT !.options = opts]
  IN CASE o = "isSupported" -> Finish(st, isSupported(u))
       [] o = "download" -> IF c.ok THEN Dispatch(st) ELSE Finish(st, FacadeCatch(c.err))
       [] OTHER -> IF c.ok THEN Dispatch(st) ELSE Finish(st, Raise(c.err))

\* SocialMediaScraper.getMetadata(u), up to its first await.
F_getMetadata ==
  \E u \in FacadeURLs :
    /\ CanCall
    /\ Becomes(Enter("getMetadata", u, NoOptions))
    /\ Started

\* SocialMediaScraper.getVideoURL(u), up to its first await.
F_getVideoURL ==
  \E u \in FacadeURLs :
    /\ CanCall
    /\ Becomes(Enter("getVideoURL", u, NoOptions))
    /\ Started

\* SocialMediaScraper.download(u), called without options, up to its first
\* await.
F_download ==
  \E u \in FacadeURLs :
    /\ CanCall
    /\ Becomes(Enter("download", u, NoOptions))
    /\ Started

\* SocialMediaScraper.isSupported(u).
F_isSupported ==
  \E u \in FacadeURLs :
    /\ CanCall
    /\ Becomes(Enter("isSupported", u, NoOptions))
    /\ Started

\* The request of scrapeWithAPI is answered.
H_InstagramApi ==
  \E resp \in ApiResponses :
    /\ pc = "ig_api"
    /\ Becomes(OnInstagramApi(Cur, resp))
    /\ Step

\* The request of InstagramScraper.scrapeWithHTML is answered.
H_InstagramPage ==
  \E resp \in InstagramPageResponses :
    /\ pc = "ig_html"
    /\ Becomes(OnInstagramPage(Cur, resp))
    /\ Step

\* The request of FacebookScraper.scrapeWithHTML is answered.
H_FacebookPage ==
  \E resp \in FacebookPageResponses :
    /\ pc = "fb_html"
    /\ Becomes(OnFacebookPage(Cur, resp))
    /\ Step

\* The request of scrapeWithMobileSite is answered.
H_FacebookMobile ==
  \E resp \in FacebookPageResponses :
    /\ pc = "fb_mobile"
    /\ Becomes(OnFacebookMobile(Cur, resp))
    /\ Step

\* The sleep between two attempts ends.
H_SleepDone ==
  /\ pc = "sleep"
  /\ Becomes(RetrySleepDone(Cur))
  /\ Step

\* The binary request of Extractor download is answered.
H_Binary ==
  \E resp \in BinaryResponses :
    /\ pc = "binary"
    /\ Becomes(BinaryDone(Cur, resp))
    /\ Step

Next ==
  \/ F_getMetadata
  \/ F_getVideoURL
  \/ F_download
  \/ F_isSupported
  \/ H_InstagramApi
  \/ H_InstagramPage
  \/ H_FacebookPage
  \/ H_FacebookMobile
  \/ H_SleepDone
  \/ H_Binary

Spec == Init /\ [][Next]_vars

\* ------------------------------------------------ retry on its own

\* The error the scripted operation throws at its k-th invocation.
ScriptedError(k) == PlainError([j \in 1..k |-> "failed"])

InitRetry ==
  /\ config = NoConfig
  /\ igConfig = EffectiveConfig(config)
  /\ fbConfig = EffectiveConfig(config)
  /\ nCalls = 0
  /\ slots = NoSlots /\ feeds = NoFeeds
  /\ NoText
  /\ renorm = NoOutcome /\ recls = NoClass
  /\ fails \in 0..MaxFails
  /\ CallIs(Fresh("retry", Str(<<>>), NoClass))

\* retry(fn, n, d) is called with an operation that fails `fails` times.
R_Call ==
  \E n \in (-1)..(MaxFails + 1), d \in {0, 500, 1000} :
    /\ pc = "idle"
    /\ Becomes(RetryEnter(Cur, "scripted", n, d))
    /\ Started

\* The scripted operation settles: it rejects its first `fails` invocations.
R_FnSettles ==
  /\ pc = "r_fn"
  /\ Becomes(IF calls > fails THEN RetryReturns(Cur, <<"value">>)
             ELSE RetryCatch(Cur, ScriptedError(calls)))
  /\ Step

NextRetry == R_Call \/ R_FnSettles \/ H_SleepDone

SpecRetry == InitRetry /\ [][NextRetry]_vars

\* ------------------------------------------- classifier applied to inputs

InitURL ==
  /\ config = NoConfig
  /\ igConfig = EffectiveConfig(config)
  /\ fbConfig = EffectiveConfig(config)
  /\ nCalls = 0
  /\ slots = NoSlots /\ feeds = NoFeeds
  /\ NoText
  /\ renorm = NoOutcome /\ recls = NoClass /\ fails = 0
  /\ \E u \in URLInputs : CallIs([Fresh("validateURL", u, NoClass) EXCEPT !.pc = "u_input"])

U_Classify ==
  /\ pc = "u_input"
  /\ cls' = validateURL(url)
  /\ pc' = "u_classified"
  /\ UNCHANGED <<instanceVars, nCalls, harnessVars, op, url, fn, retries, delay, i,
                 lastError, calls, waits, phase, scrapeUrl, metadata, dlMetadata,
                 dlOutcome, ran, requests, trace, options, sent, outcome, pairVars, textVars>>

U_Renormalize ==
  /\ pc = "u_classified"
  /\ cls.ok
  /\ renorm' = Normalize(cls.platform, cls.normalizedUrl)
  /\ pc' = "u_renormalized"
  /\ UNCHANGED <<instanceVars, nCalls, recls, fails, op, url, cls, fn, retries, delay, i,
                 lastError, calls, waits, phase, scrapeUrl, metadata, dlMetadata,
                 dlOutcome, ran, requests, trace, options, sent, outcome, pairVars, textVars>>

U_Reclassify ==
  /\ pc = "u_renormalized"
  /\ recls' = validateURL(Str(cls.normalizedUrl))
  /\ pc' = "u_done"
  /\ UNCHANGED <<instanceVars, nCalls, renorm, fails, op, url, cls, fn, retries, delay, i,
                 lastError, calls, waits, phase, scrapeUrl, metadata, dlMetadata,
                 dlOutcome, ran, requests, trace, options, sent, outcome, pairVars, textVars>>

NextURL == U_Classify \/ U_Renormalize \/ U_Reclassify

SpecURL == InitURL /\ [][NextURL]_vars

\* ------------------------------------------------ construction on its own

InitConfig ==
  /\ config \in ConfigInputs
  /\ igConfig = NotConstructed
  /\ fbConfig = NotConstructed
  /\ nCalls = 0
  /\ slots = NoSlots /\ feeds = NoFeeds
  /\ NoText
  /\ renorm = NoOutcome /\ recls = NoClass /\ fails = 0
  /\ CallIs([Fresh("new", Str(<<>>), NoClass) EXCEPT !.pc = "k_new"])

\* new InstagramScraper(config)
K_Instagram ==
  /\ pc = "k_new"
  /\ igConfig' = EffectiveConfig(config)
  /\ pc' = "k_instagram"
  /\ UNCHANGED <<config, fbConfig, nCalls, harnessVars, op, url, cls, fn, retries, delay, i,
                 lastError, calls, waits, phase, scrapeUrl, metadata, dlMetadata,
                 dlOutcome, ran, requests, trace, options, sent, outcome, pairVars, textVars>>

\* new FacebookScraper(config)
K_Facebook ==
  /\ pc = "k_instagram"
  /\ fbConfig' = EffectiveConfig(config)
  /\ pc' = "k_done"
  /\ UNCHANGED <<config, igConfig, nCalls, harnessVars, op, url, cls, fn, retries, delay, i,
                 lastError, calls, waits, phase, scrapeUrl, metadata, dlMetadata,
                 dlOutcome, ran, requests, trace, options, sent, outcome, pairVars, textVars>>

\* An extractor's scrape hands its retry count and delay to retry.
K_Scrape ==
  \E who \in {"instagram", "facebook"} :
    /\ pc = "k_done"
    /\ fn' = who
    /\ retries' = ConfigOf(who).retries
    /\ delay' = ConfigOf(who).retryDelay
    /\ pc' = "k_scraping"
    /\ UNCHANGED <<instanceVars, nCalls, harnessVars, op, url, cls, i,
                   lastError, calls, waits, phase, scrapeUrl, metadata, dlMetadata,
                   dlOutcome, ran, requests, trace, options, sent, outcome, pairVars, textVars>>

NextConfig == K_Instagram \/ K_Facebook \/ K_Scrape

SpecConfig == InitConfig /\ [][NextConfig]_vars

\* ------------------------------------------ text extractors applied to texts

\* The values handed to extractHashtags and extractMentions.
TextInputs == NonStrings \cup {Str(s) : s \in SeqsUpTo(Chars, MaxText)}

InitText ==
  /\ config = NoConfig
  /\ igConfig = EffectiveConfig(config)
  /\ fbConfig = EffectiveConfig(config)
  /\ nCalls = 0
  /\ slots = NoSlots /\ feeds = NoFeeds
  /\ renorm = NoOutcome /\ recls = NoClass /\ fails = 0
  /\ text \in TextInputs
  /\ hashtags = NoOutcome /\ mentions = NoOutcome
  /\ payload = NoPayload /\ enriched = NoEnrichment
  /\ CallIs([Fresh("extract", Str(<<>>), NoClass) EXCEPT !.pc = "t_input"])

\* extractHashtags(text)
T_Hashtags ==
  /\ pc = "t_input"
  /\ hashtags' = extractHashtags(text)
  /\ pc' = "t_hashtags"
  /\ UNCHANGED <<instanceVars, nCalls, harnessVars, op, url, cls, fn, retries, delay, i,
                 lastError, calls, waits, phase, scrapeUrl, metadata, dlMetadata,
                 dlOutcome, ran, requests, trace, options, sent, outcome, pairVars, text, mentions, payload, enriched>>

\* extractMentions(text)
T_Mentions ==
  /\ pc = "t_hashtags"
  /\ mentions' = extractMentions(text)
  /\ pc' = "t_done"
  /\ UNCHANGED <<instanceVars, nCalls, harnessVars, op, url, cls, fn, retries, delay, i,
                 lastError, calls, waits, phase, scrapeUrl, metadata, dlMetadata,
                 dlOutcome, ran, requests, trace, options, sent, outcome, pairVars, text, hashtags, payload, enriched>>

NextText == T_Hashtags \/ T_Mentions

SpecText == InitText /\ [][NextText]_vars

\* --------------------------------------- record building applied to payloads

InitEnrich ==
  /\ config = NoConfig
  /\ igConfig = EffectiveConfig(config)
  /\ fbConfig = EffectiveConfig(config)
  /\ nCalls = 0
  /\ slots = NoSlots /\ feeds = NoFeeds
  /\ renorm = NoOutcome /\ recls = NoClass /\ fails = 0
  /\ text = Missing /\ hashtags = NoOutcome /\ mentions = NoOutcome
  /\ payload \in Payloads
  /\ enriched = NoEnrichment
  /\ CallIs([Fresh("build", Str(<<>>), NoClass) EXCEPT !.pc = "n_found"])

\* The strategy builds its record from what it found.
Built(e) ==
  /\ pc = "n_found"
  /\ enriched' = e
  /\ pc' = "n_built"
  /\ UNCHANGED <<instanceVars, nCalls, harnessVars, op, url, cls, fn, retries, delay, i,
                 lastError, calls, waits, phase, scrapeUrl, metadata, dlMetadata,
                 dlOutcome, ran, requests, trace, options, sent, outcome, pairVars,
                 text, hashtags, mentions, payload>>

\* parseAPIResponse(item, url)
N_parseAPIResponse ==
  /\ payload.strategy = "api"
  /\ Built(parseAPIResponse_enrich(payload))

\* parseGraphQLResponse(media, url), called by scrapeWithAPI or extractFromScripts
N_parseGraphQLResponse ==
  /\ payload.strategy \in {"graphql", "scripts"}
  /\ Built(parseGraphQLResponse_enrich(payload))

\* extractFromJSONLD(html, url)
N_extractFromJSONLD ==
  /\ payload.strategy = "jsonld"
  /\ Built(extractFromJSONLD_enrich(payload))

\* extractFromMetaTags(html, url)
N_extractFromMetaTags ==
  /\ payload.strategy = "meta"
  /\ Built(extractFromMetaTags_enrich(payload))

\* extractMetadataFromHTML($, url), called by scrapeWithHTML or scrapeWithMobileSite
N_extractMetadataFromHTML ==
  /\ payload.strategy \in {"full", "mobile"}
  /\ Built(extractMetadataFromHTML_enrich(payload))

NextEnrich ==
  \/ N_parseAPIResponse
  \/ N_parseGraphQLResponse
  \/ N_extractFromJSONLD
  \/ N_extractFromMetaTags
  \/ N_extractMetadataFromHTML

SpecEnrich == InitEnrich /\ [][NextEnrich]_vars

\* ------------------------------------- concurrent calls on one instance

\* The inputs of the concurrent calls.
PairURLs ==
  {Str(<<"https://", "www.", "instagram.com", "/", "p", "/", "abc">>),
   Str(<<"https://", "fb.watch", "/", "abc", "/">>)}

PairOps == {"getMetadata", "getVideoURL", "download", "isSupported"}

\* Two attempts, so that a call can sleep while the other one runs.
PairConfigs == {[NoConfig EXCEPT !.retries = Given(2)]}

PairApiResponses ==
  {[ok |-> FALSE, message |-> "timeout", data |-> NoData],
   [ok |-> TRUE, message |-> "",
    data |-> [items0 |-> [present |-> TRUE, mediaType2 |-> TRUE, clips |-> FALSE,
                          videoUrl |-> "cdn1"],
              media |-> NoMedia]]}

PairPageResponses ==
  {[ok |-> FALSE, message |-> "timeout", text |-> FALSE, data |-> NoPage],
   [ok |-> TRUE, message |-> "", text |-> TRUE, data |-> [NoPage EXCEPT !.ogVideo = "cdn2"]]}

PairFacebookResponses ==
  {[ok |-> FALSE, message |-> "timeout", videoSource |-> Absent],
   [ok |-> TRUE, message |-> "", videoSource |-> "cdn1"]}

PairBinaryResponses == {[ok |-> FALSE, message |-> "timeout"], [ok |-> TRUE, message |-> ""]}

\* The answers the HTTP collaborator can give to the request a call at
\* position p waits for.
ResponsesFor(p) ==
  CASE p = "ig_api" -> PairApiResponses
    [] p = "ig_html" -> PairPageResponses
    [] p \in {"fb_html", "fb_mobile"} -> PairFacebookResponses
    [] p = "binary" -> PairBinaryResponses
    [] OTHER -> {}

\* The call in state st receives the answer to its pending request.
Deliver(st, resp) ==
  CASE st.pc = "ig_api" -> OnInstagramApi(st, resp)
    [] st.pc = "ig_html" -> OnInstagramPage(st, resp)
    [] st.pc = "fb_html" -> OnFacebookPage(st, resp)
    [] st.pc = "fb_mobile" -> OnFacebookMobile(st, resp)
    [] st.pc = "binary" -> BinaryDone(st, resp)

SlotWriteSharedLastError(c, st) ==
  [d \in Callers |-> IF d = c THEN st ELSE [slots[d] EXCEPT !.lastError = st.lastError]]

\* A step of caller c's call changes the locals of that call only.
SlotWrite(c, st) == [slots EXCEPT ![c] = st]

InitPair ==
  /\ config \in PairConfigs
  /\ igConfig = EffectiveConfig(config)
  /\ fbConfig = EffectiveConfig(config)
  /\ nCalls = 0
  /\ slots = NoSlots /\ feeds = NoFeeds
  /\ NoText
  /\ renorm = NoOutcome /\ recls = NoClass /\ fails = 0
  /\ CallIs(Fresh("none", Str(<<>>), NoClass))

\* Caller c calls a method of the instance.
P_Call ==
  \E c \in Callers, o \in PairOps, u \in PairURLs, opts \in FacadeOptions :
    /\ slots[c].pc = "idle"
    /\ (o = "download" \/ opts = NoOptions)
    /\ slots' = SlotWrite(c, Enter(o, u, opts))
    /\ nCalls' = nCalls + 1
    /\ UNCHANGED <<instanceVars, harnessVars, callVars, feeds, textVars>>

\* The pending request of caller c's call is answered.
P_Deliver ==
  \E c \in Callers :
    \E resp \in ResponsesFor(slots[c].pc) :
      /\ slots' = SlotWrite(c, Deliver(slots[c], resp))
      /\ feeds' = [feeds EXCEPT ![c] = Append(@, resp)]
      /\ UNCHANGED <<instanceVars, nCalls, harnessVars, callVars, textVars>>

\* The sleep of caller c's call ends.
P_SleepDone ==
  \E c \in Callers :
    /\ slots[c].pc = "sleep"
    /\ slots' = SlotWrite(c, RetrySleepDone(slots[c]))
    /\ UNCHANGED <<instanceVars, nCalls, harnessVars, callVars, feeds, textVars>>

NextPair == P_Call \/ P_Deliver \/ P_SleepDone

SpecPair == InitPair /\ [][NextPair]_vars

\* ------------------------- retry called directly and by an extractor's scrape

InitAttempts ==
  /\ config \in Configs
  /\ igConfig = EffectiveConfig(config)
  /\ fbConfig = EffectiveConfig(config)
  /\ nCalls = 0
  /\ slots = NoSlots /\ feeds = NoFeeds
  /\ NoText
  /\ renorm = NoOutcome /\ recls = NoClass
  /\ fails \in 0..MaxFails
  /\ CallIs(Fresh("none", Str(<<>>), NoClass))

\* The pending request of the call is answered.
A_Deliver ==
  \E resp \in ResponsesFor(pc) :
    /\ Becomes(Deliver(Cur, resp))
    /\ Step

\* One call is followed: retry(fn, n, d) with a scripted operation, or
\* getMetadata, whose scrape hands the configured count and delay to retry.
NextAttempts == R_Call \/ R_FnSettles \/ F_getMetadata \/ A_Deliver \/ H_SleepDone

SpecAttempts == InitAttempts /\ [][NextAttempts]_vars

\* Every pending request is answered or fails in the end, and the timer of
\* every sleep fires.
SpecAttemptsFair ==
  SpecAttempts /\ WF_vars(A_Deliver) /\ WF_vars(H_SleepDone) /\ WF_vars(R_FnSettles)

\* ================================================================== claims

\* Some token of s spells, in any letter case, one of the signatures in sigs.
HasSignature(s, sigs) == \E k \in DOMAIN s : Lower(s[k]) \in sigs

InstagramSigs == {"instagram.com"}
FacebookSigs == {"facebook.com", "fb.com", "fb.watch"}

Classify_Done == pc \in {"u_classified", "u_renormalized", "u_done"}

\* C3 (as claimed): a string with the Instagram signature is classified
\* instagram, any other string with a Facebook signature is classified
\* facebook, every other value is rejected, and every rejection is a URLError.
C3_ClassifyBySignature ==
  Classify_Done =>
    /\ (url.type = "string" /\ HasSignature(url.s, InstagramSigs))
          => (cls.ok /\ cls.platform = "instagram")
    /\ (url.type = "string" /\ ~HasSignature(url.s, InstagramSigs)
          /\ HasSignature(url.s, FacebookSigs))
          => (cls.ok /\ cls.platform = "facebook")
    /\ (url.type # "string" \/ ~HasSignature(url.s, InstagramSigs \cup FacebookSigs))
          => ~cls.ok
    /\ ~cls.ok => cls.err.name = "URLError"

\* C4 (as claimed): normalizing the normalized URL of an accepted URL again
\* succeeds and gives the very same string.
C4_NormalizeIdempotent ==
  pc \in {"u_renormalized", "u_done"} =>
    (renorm.ok /\ renorm.val = cls.normalizedUrl)

\* C5 (as claimed): a string with a Facebook signature and without fb.watch
\* normalizes to the canonical watch URL of its v parameter when it has one
\* with a value, and to itself cut at the query string when it has none.
C5_FacebookCanonical ==
  (/\ Classify_Done
   /\ url.type = "string"
   /\ ~HasSignature(url.s, InstagramSigs)
   /\ HasSignature(url.s, {"facebook.com", "fb.com"})
   /\ ~HasSignature(url.s, {"fb.watch"}))
  => LET v == searchParamsGetV(QueryOf(url.s))
     IN /\ cls.ok
        /\ (v.found /\ v.value # <<>>) => cls.normalizedUrl = CanonicalWatch \o v.value
        /\ ~v.found => cls.normalizedUrl = splitQuery0(url.s)

\* Number of '/' characters that end s.
RECURSIVE TrailingSlashes(_)
TrailingSlashes(s) ==
  IF s = <<>> THEN 0
  ELSE IF s[Len(s)] = "/" THEN 1 + TrailingSlashes(SubSeq(s, 1, Len(s) - 1))
  ELSE IF s[Len(s)] = "https://" THEN 2
  ELSE 0

\* C6 (as claimed): the normalized URL of an Instagram URL is the URL cut at
\* its first '?' and it ends with exactly one '/'.
C6_SingleTrailingSlash ==
  (Classify_Done /\ cls.ok /\ cls.platform = "instagram") =>
    /\ ~includes(cls.normalizedUrl, "?")
    /\ TrailingSlashes(cls.normalizedUrl) = 1

\* C6 (amended): the normalized URL of an Instagram URL is the URL cut at its
\* first '?', with one '/' appended exactly when the cut URL does not already
\* end with '/'; so it has no '?' and ends with at least one '/'.
C6_TrailingSlashEnsured ==
  (Classify_Done /\ cls.ok /\ cls.platform = "instagram") =>
    LET n == cls.normalizedUrl
        q == FirstIndex(url.s, {"?"})
        cut == IF q = 0 THEN Len(url.s) ELSE q - 1
    IN /\ ~includes(n, "?")
       /\ TrailingSlashes(n) >= 1
       /\ Len(n) \in {cut, cut + 1}
       /\ \A k \in 1..cut : n[k] = url.s[k]
       /\ (Len(n) = cut + 1) <=> (TrailingSlashes(SubSeq(url.s, 1, cut)) = 0)

\* C6 witness: an Instagram URL with a query string whose path does not end
\* with '/' has been normalized.
C6_Witness ==
  /\ pc = "u_classified" /\ cls.ok /\ cls.platform = "instagram"
  /\ includes(url.s, "?")
  /\ TrailingSlashes(splitQuery0(url.s)) = 0
  /\ Len(cls.normalizedUrl) = Len(splitQuery0(url.s)) + 1

\* The call has ended.
Done == pc = "done"

\* The binary payload was fetched: the last thing the call did.
Fetched == trace # <<>> /\ trace[Len(trace)].ev = "fetched"

\* The error the facade's getMetadata rejects with when its scrape fails:
\* the classifier's, the identifier check's, or the one retry threw.
ScrapeError ==
  IF ~cls.ok THEN cls.err
  ELSE IF fn # "none" THEN lastError
  ELSE ParseError(IF cls.platform = "instagram"
                  THEN <<"Could not extract shortcode from URL">>
                  ELSE <<"Could not extract video ID from URL">>, cls.platform)

\* C1 (as claimed): a download call never ends by throwing; it returns a
\* DownloadResult whose success is true exactly when classification, both
\* scrapes and the binary fetch succeeded.
C1_DownloadNeverRaises ==
  (Done /\ op = "download") =>
    /\ outcome.kind = "return"
    /\ outcome.val.success <=> (cls.ok /\ Fetched)

\* C2: a DownloadResult is either success with the scraped record, a buffer
\* and no error field, or failure with an error message, the empty metadata
\* marker and no buffer.
C2_ResultShape ==
  (Done /\ op = "download" /\ outcome.kind = "return") =>
    LET r == outcome.val
    IN \/ /\ r.success
          /\ r.metadata = metadata
          /\ r.metadata.platform \in {"instagram", "facebook"}
          /\ r.buffer.present
          /\ ~r.error.present
       \/ /\ ~r.success
          /\ r.error.present
          /\ r.error.message # <<>>
          /\ r.metadata = EmptyMetadata
          /\ ~r.buffer.present

\* C2 witness: a download whose own scrape gave a record and whose binary
\* fetch failed returned the failure shape.
C2_Witness ==
  /\ Done /\ op = "download" /\ outcome.kind = "return"
  /\ ~outcome.val.success
  /\ metadata # EmptyMetadata
  /\ Truthy(dlMetadata.videoUrl)

\* C7: isSupported returns true exactly when validateURL accepts the value,
\* never throws, and sends no request and enters no extractor.
C7_IsSupported ==
  (Done /\ op = "isSupported") =>
    /\ outcome.kind = "return"
    /\ outcome.val = cls.ok
    /\ requests = 0
    /\ trace = <<>>

\* C7 witness: isSupported answered false for a URL on which validateURL
\* threw something other than a URLError.
C7_Witness ==
  /\ Done /\ op = "isSupported"
  /\ ~cls.ok /\ cls.err.name = "TypeError"
  /\ outcome = Return(FALSE)

\* C8: getMetadata enters only the scrape of the classified platform's
\* extractor, with the normalized URL; a record it returns carries that
\* platform; an error of the extractor is the error it throws.
C8_Dispatch ==
  (op = "getMetadata" /\ pc # "idle") =>
    /\ trace = IF cls.ok THEN <<Event("scrape", cls.platform, cls.normalizedUrl)>> ELSE <<>>
    /\ fn \in {"none", cls.platform}
    /\ (requests > 0) => cls.ok
    /\ (Done /\ outcome.kind = "return") => outcome.val.platform = cls.platform
    /\ (Done /\ outcome.kind = "throw") => outcome.err = ScrapeError
    /\ Done => outcome.kind \in {"return", "throw"}

\* C8 witness: getMetadata returned a record for a Facebook URL.
C8_Witness ==
  /\ Done /\ op = "getMetadata" /\ outcome.kind = "return"
  /\ cls.platform = "facebook"
  /\ outcome.val.platform = "facebook"

\* C9: getVideoURL returns the videoUrl of the record getMetadata resolved
\* with when it is present, throws a plain Error when it is absent, and lets
\* the failure of getMetadata pass unchanged.
C9_GetVideoURL ==
  (Done /\ op = "getVideoURL") =>
    IF metadata = EmptyMetadata
    THEN outcome = Raise(ScrapeError)
    ELSE IF Truthy(metadata.videoUrl)
    THEN outcome = Return(metadata.videoUrl)
    ELSE /\ outcome.kind = "throw"
         /\ outcome.err.name = "Error"
         /\ outcome.err.code = "none"

\* C9 witness: getMetadata resolved with a record without videoUrl and
\* getVideoURL threw the plain Error.
C9_Witness ==
  /\ Done /\ op = "getVideoURL"
  /\ metadata # EmptyMetadata /\ ~Truthy(metadata.videoUrl)
  /\ outcome.kind = "throw" /\ outcome.err.name = "Error"

\* C10: for an operation that fails `fails` times and then succeeds, retry
\* returns the value after fails+1 invocations when retries > fails, throws
\* after exactly retries invocations when 0 < retries <= fails, and invokes
\* nothing when retries <= 0.
C10_InvocationCount ==
  (Done /\ op = "retry") =>
    /\ (retries > fails) => (outcome = Return(<<"value">>) /\ calls = fails + 1)
    /\ (0 < retries /\ retries <= fails) => (outcome.kind = "throw" /\ calls = retries)
    /\ (retries <= 0) => calls = 0

\* C10 witness: an operation that failed twice succeeded at the third of
\* three permitted attempts.
C10_Witness ==
  /\ Done /\ op = "retry"
  /\ fails = 2 /\ retries = 3 /\ calls = 3
  /\ outcome.kind = "return"

\* C11: when retry is permitted at least one invocation and every permitted
\* invocation fails, it throws the very error of the last invocation.
C11_LastErrorRaised ==
  (Done /\ op = "retry" /\ retries >= 1 /\ retries <= fails) =>
    /\ outcome = Raise(ScriptedError(retries))
    /\ calls = retries
    /\ \A k \in 1..(retries - 1) : outcome.err # ScriptedError(k)

\* C11 witness: three permitted invocations all failed and the error of the
\* third was thrown.
C11_Witness ==
  /\ Done /\ op = "retry"
  /\ retries = 3 /\ fails = 3 /\ calls = 3
  /\ outcome = Raise(ScriptedError(3))

InstagramOrder == <<"api", "jsonld", "scripts", "meta">>
FacebookOrder == <<"full", "mobile", "graph">>

\* The strategies of the running attempt ran in the order `order`, each one
\* only after every earlier one yielded no result.
RanInOrder(order) ==
  /\ Len(ran) <= Len(order)
  /\ \A k \in DOMAIN ran : ran[k].strategy = order[k]
  /\ \A k \in 1..(Len(ran) - 1) : ran[k].val = Null

\* getMetadata has returned the record its extractor's scrape resolved with.
ScrapeReturned == Done /\ op = "getMetadata" /\ outcome.kind = "return"

\* C13: in each attempt of Instagram scrape the strategies run in the order
\* API, JSON-LD, page scripts, meta tags, each only when the earlier ones
\* yielded nothing; the record returned is that of the last strategy run, and
\* the attempt that returns has sent one request when the API strategy
\* yielded the record and two otherwise, after two for each failed attempt.
C13_InstagramOrder ==
  (fn = "instagram") =>
    /\ RanInOrder(InstagramOrder)
    /\ (pc = "ig_html") => Len(ran) = 1
    /\ ScrapeReturned =>
         /\ ran # <<>>
         /\ outcome.val # Null
         /\ outcome.val = ran[Len(ran)].val
         /\ requests = 2 * (calls - 1) + (IF Len(ran) = 1 THEN 1 ELSE 2)

\* C13 witness: at its second attempt Instagram scrape returned the record of
\* the page scripts, after the API and the JSON-LD strategies yielded nothing.
C13_Witness ==
  /\ ScrapeReturned /\ fn = "instagram"
  /\ calls = 2 /\ Len(ran) = 3
  /\ ran[3].strategy = "scripts"
  /\ outcome.val = ran[3].val

\* C14 (as claimed): in each attempt of Facebook scrape the strategies run in
\* the order full site, mobile site, Graph API, each only when the earlier
\* ones yielded nothing, and the Graph API yields nothing; a scrape in which
\* no attempt yields a record fails with the metadata-extraction ParseError.
C14_FacebookOrder ==
  (fn = "facebook") =>
    /\ RanInOrder(FacebookOrder)
    /\ \A k \in DOMAIN ran : ran[k].strategy = "graph" => ran[k].val = Null
    /\ (Done /\ op = "getMetadata" /\ outcome.kind = "throw") =>
         outcome.err = ParseError(<<"Could not extract video metadata">>, "facebook")

\* C15 (as claimed): once the API strategy has met a post that is not a
\* video, no other strategy runs in that attempt and the attempt fails with
\* the not-a-video ParseError.
C15_NonVideoFails ==
  (fn = "instagram" /\ ran # <<>> /\ ran[1].note = "not-a-video") =>
    /\ Len(ran) = 1
    /\ pc # "ig_html"
    /\ lastError = ParseError(<<"Post does not contain a video">>, "instagram")

\* C16 (as claimed): every record scrape returns carries a non-empty videoUrl.
C16_VideoUrlPresent ==
  ScrapeReturned => Truthy(outcome.val.videoUrl)

\* C16 (amended): the record scrape returns is the one its last strategy
\* yielded; it carries a non-empty videoUrl when that strategy is a Facebook
\* strategy or the Instagram meta-tag strategy, and is returned with or
\* without a videoUrl when it is the Instagram API, JSON-LD or page-script
\* strategy.
C16_VideoUrlBySource ==
  ScrapeReturned =>
    LET last == ran[Len(ran)]
    IN /\ outcome.val = last.val
       /\ last.strategy \in {"meta", "full", "mobile"} => Truthy(outcome.val.videoUrl)
       /\ ~Truthy(outcome.val.videoUrl) =>
            (outcome.val.platform = "instagram" /\ last.strategy \in {"api", "jsonld", "scripts"})

\* C16 witness: Instagram scrape returned the record of the JSON-LD strategy,
\* which has no videoUrl.
C16_Witness ==
  /\ ScrapeReturned
  /\ ran[Len(ran)].strategy = "jsonld"
  /\ outcome.val.videoUrl = Absent

\* Extractor download has been called and its own scrape has settled.
InExtractorDownload == op = "download" /\ phase = "extractor"

\* C17: when the scrape run by Extractor download resolves with a record
\* without videoUrl, Extractor download throws the video-URL-missing
\* ParseError of its platform and never sends the binary request.
C17_MissingVideoUrl ==
  (InExtractorDownload /\ dlMetadata # EmptyMetadata /\ ~Truthy(dlMetadata.videoUrl)) =>
    /\ Done
    /\ dlOutcome = Raise(ParseError(<<"Video URL not found">>, cls.platform))
    /\ ~Fetched
    /\ outcome = Return(DownloadFailure(<<"Video URL not found">>))

\* C17 witness: the facade's scrape gave a record with a videoUrl, the scrape
\* of Extractor download gave one without, and download failed.
C17_Witness ==
  /\ InExtractorDownload /\ Done
  /\ Truthy(metadata.videoUrl)
  /\ dlMetadata # EmptyMetadata /\ ~Truthy(dlMetadata.videoUrl)
  /\ dlOutcome.kind = "throw"

\* C18: Extractor download settles by throwing the error its scrape threw,
\* or, once its record has a videoUrl, by returning the buffer of a fetched
\* payload or throwing a NetworkError of its own platform that carries the
\* transport message.
C18_DownloadPropagates ==
  (InExtractorDownload /\ Done) =>
    IF dlMetadata = EmptyMetadata
    THEN dlOutcome = Raise(lastError)
    ELSE IF ~Truthy(dlMetadata.videoUrl)
    THEN dlOutcome.kind = "throw"
    ELSE \/ Fetched /\ dlOutcome = Return(BufferFrom(dlMetadata.videoUrl))
         \/ /\ ~Fetched
            /\ \E m \in TransportMessages :
                 /\ dlOutcome = Raise(NetworkError(<<"Failed to download video: ", m>>,
                                                   cls.platform))
                 /\ outcome = Return(DownloadFailure(<<"Failed to download video: ", m>>))

\* C18 witness: the binary fetch of a Facebook download failed and Extractor
\* download threw a NetworkError tagged facebook.
C18_Witness ==
  /\ InExtractorDownload /\ Done
  /\ Truthy(dlMetadata.videoUrl) /\ ~Fetched
  /\ dlOutcome.kind = "throw"
  /\ dlOutcome.err.name = "NetworkError" /\ dlOutcome.err.platform = "facebook"

\* What a caller's field holds once filled in: its value when given, the
\* default d when left unset.
Supplied(field, d) == IF field.set THEN field.v ELSE d

\* The effective configuration the claim describes for the given config.
ClaimedConfig ==
  [userAgent |-> Supplied(config.userAgent, DefaultUserAgent),
   timeout |-> Supplied(config.timeout, DefaultTimeout),
   retries |-> Supplied(config.retries, DefaultRetries),
   retryDelay |-> Supplied(config.retryDelay, DefaultRetryDelay),
   proxy |-> Supplied(config.proxy, DefaultProxy),
   cookies |-> Supplied(config.cookies, DefaultCookies)]

\* C19 (as claimed): after construction both extractors hold, for each of
\* the six fields, the caller's value when it was given (0 included) and the
\* default otherwise, and retry is handed the caller's count and delay.
C19_ConfigKept ==
  /\ (pc \in {"k_instagram", "k_done", "k_scraping"}) => igConfig = ClaimedConfig
  /\ (pc \in {"k_done", "k_scraping"}) => fbConfig = ClaimedConfig
  /\ (pc = "k_scraping") =>
       (retries = ClaimedConfig.retries /\ delay = ClaimedConfig.retryDelay)

\* The call st with a finished sleep taken as over.
Settle(st) == IF st.pc = "sleep" THEN RetrySleepDone(st) ELSE st

\* The call st run on its own against the answers in feed.
RECURSIVE Replay(_, _)
Replay(st, feed) ==
  IF st.pc = "sleep" THEN Replay(RetrySleepDone(st), feed)
  ELSE IF feed = <<>> THEN st
  ELSE Replay(Deliver(st, Head(feed)), Tail(feed))

\* Caller c's call as it would stand had it run alone on this instance
\* against the answers it has received.
Alone(c) == Replay(Enter(slots[c].op, slots[c].url, slots[c].options), feeds[c])

\* C20: while two calls run interleaved on one instance, the effective
\* configuration of both extractors stays what the constructor built, and
\* each call stands (outcome, requests sent, strategies run, errors kept)
\* exactly where it would stand had it run alone against the same answers.
C20_CallsIndependent ==
  /\ igConfig = EffectiveConfig(config)
  /\ fbConfig = EffectiveConfig(config)
  /\ \A c \in Callers : slots[c].pc # "idle" => Settle(slots[c]) = Alone(c)

\* C20 witness: caller a's download waits for its binary payload while
\* caller b's getMetadata, which has failed one attempt, sleeps.
C20_Witness ==
  /\ slots["a"].op = "download" /\ slots["a"].pc = "binary"
  /\ slots["b"].op = "getMetadata" /\ slots["b"].pc = "sleep"
  /\ slots["b"].lastError # slots["a"].lastError
  /\ Settle(slots["b"]) = Alone("b")

\* The positions of s at which sigil is directly followed by a word character.
TagPositions(s, sigil) ==
  {k \in DOMAIN s : s[k] = sigil /\ k < Len(s) /\ s[k + 1] \in WordChars}

\* The j-th smallest element of the set of numbers P.
Nth(P, j) == CHOOSE p \in P : Cardinality({q \in P : q < p}) = j - 1

\* The last position of the word that starts right after position k of s.
WordEnd(s, k) ==
  CHOOSE e \in (k + 1)..Len(s) :
    /\ \A m \in (k + 1)..e : s[m] \in WordChars
    /\ (e = Len(s) \/ s[e + 1] \notin WordChars)

\* The words that follow sigil in s, in order of occurrence, duplicates kept.
WordsAfter(s, sigil) ==
  LET P == TagPositions(s, sigil)
  IN [j \in 1..Cardinality(P) |-> SubSeq(s, Nth(P, j) + 1, WordEnd(s, Nth(P, j)))]

\* C21: for a text that is a string or missing, extractHashtags returns the
\* words that follow each '#', in order of occurrence with duplicates kept and
\* the '#' removed, extractMentions does the same for '@', no element starts
\* with '#' or '@', and an empty or missing text gives the empty list.
C21_TagsExtracted ==
  (pc = "t_done" /\ text.type \in {"string", "undefined"}) =>
    /\ hashtags = Ok(WordsAfter(text.s, "#"))
    /\ mentions = Ok(WordsAfter(text.s, "@"))
    /\ \A j \in DOMAIN hashtags.val :
         hashtags.val[j] # <<>> /\ hashtags.val[j][1] \notin {"#", "@"}
    /\ \A j \in DOMAIN mentions.val :
         mentions.val[j] # <<>> /\ mentions.val[j][1] \notin {"#", "@"}
    /\ (text.s = <<>>) => (hashtags.val = <<>> /\ mentions.val = <<>>)

\* C21 witness: a text with the same hashtag twice gave that word twice.
C21_Witness ==
  /\ pc = "t_done"
  /\ text = Str(<<"#", "a", "#", "a">>)
  /\ hashtags = Ok(<<(<<"a">>), (<<"a">>)>>)
  /\ mentions = Ok(<<>>)


NoStrategyWorked(who) == ParseError(<<"Could not extract video metadata">>, who)

\* C23 (as claimed): a strategy whose request failed is followed by the next
\* strategy of the same attempt, and on both platforms the only error the
\* strategy chain hands to retry is the no-strategy-worked ParseError.
C23_OnlyParseErrorRaised ==
  (fn \in {"instagram", "facebook"}) =>
    /\ lastError \in {Undefined, NoStrategyWorked(fn)}
    /\ \A k \in DOMAIN ran :
         (ran[k].note = "failed" /\ ran[k].strategy # "graph") =>
           (Len(ran) > k \/ pc \in {"ig_html", "fb_mobile"})

\* The binary requests among the requests rs.
BinaryRequests(rs) == {k \in DOMAIN rs : rs[k].responseType = "arraybuffer"}

\* Every answer in feed is a transport failure.
AllFailed(feed) == feed # <<>> /\ \A k \in DOMAIN feed : ~feed[k].ok

\* C24 (as claimed): a getMetadata call all of whose page requests failed has
\* made as many attempts as configured and throws a NetworkError; a download
\* whose binary request failed has sent the binary request once per
\* configured attempt before it reports the NetworkError.
C24_TransportRetried ==
  \A c \in Callers :
    LET st == slots[c]
    IN /\ (st.pc = "done" /\ st.op = "getMetadata" /\ AllFailed(feeds[c])) =>
            /\ st.calls = st.retries
            /\ st.outcome.kind = "throw"
            /\ st.outcome.err.name = "NetworkError"
       /\ (st.pc = "done" /\ st.op = "download" /\ st.dlOutcome.kind = "throw"
             /\ st.dlOutcome.err.name = "NetworkError" /\ st.dlMetadata # EmptyMetadata) =>
            /\ Cardinality(BinaryRequests(st.sent)) = ConfigOf(st.fn).retries
            /\ st.outcome = Return(DownloadFailure(st.dlOutcome.err.message))

\* C25 (as claimed): a getMetadata call whose scrape fails with every
\* attempt ending in no strategy yielding a record has run the whole chain
\* (two requests) once per attempt for exactly the number of attempts handed
\* to retry, has waited delay*k after the k-th attempt but the last, and
\* throws the no-strategy-worked ParseError.
C25_ParseErrorRetried ==
  (/\ Done /\ op = "getMetadata" /\ fn \in {"instagram", "facebook"}
   /\ outcome.kind = "throw"
   /\ lastError \in {Undefined, NoStrategyWorked(fn)}) =>
    /\ calls = retries
    /\ waits = [k \in 1..(retries - 1) |-> delay * k]
    /\ requests >= 2
    /\ outcome.err = NoStrategyWorked(fn)

\* The identifier the scrape of platform's extractor derives from u.
IdentifierOf(platform, u) ==
  IF platform = "instagram" THEN extractInstagramShortcode(u) ELSE extractFacebookVideoId(u)

\* The ParseError of a scrape that derives no identifier from its URL.
Unidentifiable(platform) ==
  ParseError(IF platform = "instagram" THEN <<"Could not extract shortcode from URL">>
             ELSE <<"Could not extract video ID from URL">>, platform)

\* A facade method that scrapes was called with a URL the classifier accepts.
ScrapeCalled == op \in {"getMetadata", "getVideoURL", "download"} /\ pc # "idle" /\ cls.ok

\* C26: a scrape whose URL matches no identifier pattern of its platform has
\* failed at once with the identifier ParseError: no request sent, retry never
\* entered, no attempt, no strategy and no wait; a scrape whose URL matches a
\* pattern does enter retry.
C26_NoIdentifierNoRequest ==
  ScrapeCalled =>
    IF IdentifierOf(cls.platform, cls.normalizedUrl).found
    THEN fn = cls.platform
    ELSE /\ Done
         /\ requests = 0 /\ sent = <<>>
         /\ fn = "none" /\ calls = 0 /\ waits = <<>> /\ ran = <<>>
         /\ trace = <<Event("scrape", cls.platform, cls.normalizedUrl)>>
         /\ outcome = IF op = "download"
                      THEN Return(DownloadFailure(Unidentifiable(cls.platform).message))
                      ELSE Raise(Unidentifiable(cls.platform))

\* C26 witness: getMetadata of a Facebook URL without a video id threw the
\* identifier ParseError without a request.
C26_Witness ==
  /\ Done /\ op = "getMetadata"
  /\ cls.ok /\ cls.platform = "facebook"
  /\ ~extractFacebookVideoId(cls.normalizedUrl).found
  /\ outcome.kind = "throw" /\ outcome.err.name = "ParseError"
  /\ requests = 0

\* C27 (as claimed): a call with a URL the classifier rejects has ended at
\* once, with no request sent, no extractor entered, no attempt and no wait;
\* getMetadata and getVideoURL threw a URLError and download returned a
\* result with success false.
C27_RejectedBeforeIO ==
  (op \in {"getMetadata", "getVideoURL", "download"} /\ pc # "idle" /\ ~cls.ok) =>
    /\ Done
    /\ requests = 0 /\ sent = <<>> /\ trace = <<>>
    /\ fn = "none" /\ calls = 0 /\ waits = <<>>
    /\ (op # "download") => (outcome.kind = "throw" /\ outcome.err.name = "URLError")
    /\ (op = "download") => (outcome.kind = "return" /\ ~outcome.val.success)

\* C28 (as claimed): a string classified as Facebook that holds fb.watch in
\* any letter case is accepted and its normalized URL is the string itself,
\* query string included.
C28_ShortLinkUnchanged ==
  (/\ Classify_Done
   /\ url.type = "string"
   /\ ~HasSignature(url.s, InstagramSigs)
   /\ HasSignature(url.s, {"fb.watch"})) =>
    /\ cls.ok /\ cls.platform = "facebook"
    /\ cls.normalizedUrl = url.s

\* a || b || '' for two optional texts.
FirstText(a, b) == IF orEmpty(a).s # <<>> THEN a ELSE orEmpty(b)

\* The text the record's caption is taken from, by strategy.
CaptionSource ==
  CASE payload.strategy \in {"api", "graphql", "scripts"} -> orEmpty(payload.captionText)
    [] payload.strategy = "jsonld" -> FirstText(payload.description, payload.captionText)
    [] payload.strategy = "meta" -> orEmpty(payload.description)
    [] OTHER -> Missing

\* C29 (as claimed): whichever strategy built an Instagram record, its
\* hashtags and mentions are extractHashtags and extractMentions of the text
\* its caption was taken from; whichever strategy built a Facebook record,
\* its live flag is set, from the two live probes on the page.
C29_UniformEnrichment ==
  (pc = "n_built") =>
    IF payload.strategy \in {"full", "mobile"}
    THEN enriched.isLive = IF payload.isLiveMarker \/ payload.broadcastLive
                           THEN "true" ELSE "false"
    ELSE /\ enriched.caption = cleanText(CaptionSource)
         /\ enriched.hashtags = extractHashtags(CaptionSource).val
         /\ enriched.mentions = extractMentions(CaptionSource).val

\* The events of a download that reached Extractor download: the facade's
\* scrape, then Extractor download and its own scrape, all with the
\* normalized URL.
RescrapeEvents ==
  <<Event("scrape", cls.platform, cls.normalizedUrl),
    Event("download", cls.platform, cls.normalizedUrl),
    Event("scrape", cls.platform, cls.normalizedUrl)>>

\* C30: a download that reaches Extractor download runs scrape a second time,
\* from the identifier check on and with a retry count, attempt counter and
\* waits of its own; the binary request is sent once, only after that second
\* scrape resolved, for the video URL of its record; a successful download
\* has run exactly two scrapes and one binary fetch.
C30_DownloadRescrapes ==
  (op = "download" /\ pc # "idle") =>
    /\ (phase = "extractor") =>
         /\ Len(trace) >= 3 /\ SubSeq(trace, 1, 3) = RescrapeEvents
         /\ metadata # EmptyMetadata
         /\ fn = cls.platform
         /\ retries = ConfigOf(fn).retries /\ delay = ConfigOf(fn).retryDelay
         /\ (dlMetadata = EmptyMetadata /\ ~Done) =>
              /\ calls = i + 1
              /\ waits = [k \in 1..Len(waits) |-> delay * k]
              /\ Len(waits) = (IF pc = "sleep" THEN calls ELSE calls - 1)
    /\ (BinaryRequests(sent) # {}) =>
         /\ phase = "extractor" /\ Truthy(dlMetadata.videoUrl)
         /\ BinaryRequests(sent) = {Len(sent)}
         /\ sent[Len(sent)].url = <<dlMetadata.videoUrl>>
    /\ (Done /\ outcome.kind = "return" /\ outcome.val.success) =>
         /\ trace = RescrapeEvents \o <<Event("fetched", fn, <<dlMetadata.videoUrl>>)>>
         /\ Cardinality(BinaryRequests(sent)) = 1
         /\ outcome.val.buffer = BufferFrom(dlMetadata.videoUrl)
         /\ outcome.val.metadata = metadata

\* C30 witness: a Facebook download with two attempts allowed succeeded after
\* each of its two scrapes needed both attempts (four page requests each) and
\* the second scrape resolved another video URL than the first.
C30_Witness ==
  /\ Done /\ op = "download" /\ outcome.kind = "return" /\ outcome.val.success
  /\ cls.platform = "facebook"
  /\ retries = 2 /\ calls = 2
  /\ Len(sent) = 9
  /\ metadata.videoUrl # dlMetadata.videoUrl
  /\ outcome.val.buffer.from = dlMetadata.videoUrl

\* C31: retry called with a count of zero or less, directly or by an
\* extractor's scrape, has ended at once: the operation was never invoked,
\* no request was sent, no wait was made, and what it threw is the
\* uninitialized lastError, the value undefined, which is no error object;
\* an extractor's scrape hands such a count to retry exactly when the
\* configured retry count is negative.
C31_ZeroAttemptsRaiseUndefined ==
  /\ (pc # "idle" /\ fn # "none" /\ retries <= 0) =>
       /\ Done
       /\ calls = 0 /\ waits = <<>>
       /\ requests = 0 /\ sent = <<>> /\ ran = <<>>
       /\ lastError = Undefined
       /\ outcome = Raise(Undefined)
       /\ outcome.err.name \notin {"Error", "TypeError", "URLError", "NetworkError", "ParseError"}
  /\ (fn \in {"instagram", "facebook"}) =>
       ((retries <= 0) <=> (config.retries.set /\ config.retries.v < 0))

\* C31 witness: getMetadata on an instance configured with retries -1 threw
\* undefined out of the scrape of the Facebook extractor, which had found the
\* video id, without an attempt.
C31_Witness ==
  /\ Done /\ op = "getMetadata" /\ fn = "facebook"
  /\ config.retries = Given(-1) /\ fbConfig.retries = -1 /\ retries = -1
  /\ extractFacebookVideoId(scrapeUrl).found
  /\ calls = 0 /\ waits = <<>> /\ requests = 0
  /\ outcome = Raise(Undefined)

\* The errors the call has raised so far: by the classifier, by an attempt
\* (kept by retry), by Extractor download, and to the caller.
Raised ==
  (IF pc # "idle" /\ ~cls.ok THEN {cls.err} ELSE {})
  \cup (IF lastError # Undefined THEN {lastError} ELSE {})
  \cup (IF dlOutcome.kind = "throw" THEN {dlOutcome.err} ELSE {})
  \cup (IF outcome.kind = "throw" THEN {outcome.err} ELSE {})

C33_BufferOfRecordedUrl ==
  (Done /\ op = "download" /\ outcome.kind = "return" /\ outcome.val.success) =>
    /\ Truthy(outcome.val.metadata.videoUrl)
    /\ outcome.val.buffer = BufferFrom(outcome.val.metadata.videoUrl)

\* The positions of trace at which Extractor download is entered.
DownloadEntries == {k \in DOMAIN trace : trace[k].ev = "download"}

\* C34: in a download call nothing is entered or sent unless the classifier
\* accepted the URL; the first thing entered is the facade's scrape;
\* Extractor download is entered once, right after that scrape returned a
\* record, and starts with its own scrape; the binary request is sent last,
\* after Extractor download's scrape returned a record with a videoUrl; and
\* when the facade's scrape failed, Extractor download was never entered, no
\* binary request was sent and the result is a failure.
C34_DownloadStepOrder ==
  (op = "download" /\ pc # "idle") =>
    /\ (~cls.ok) => (trace = <<>> /\ sent = <<>> /\ Done)
    /\ (trace # <<>>) => trace[1] = Event("scrape", cls.platform, cls.normalizedUrl)
    /\ (sent # <<>>) => trace # <<>>
    /\ (DownloadEntries # {}) =>
         /\ DownloadEntries = {2}
         /\ metadata # EmptyMetadata
         /\ Len(trace) >= 3 /\ trace[3].ev = "scrape"
    /\ (phase = "extractor") <=> (DownloadEntries # {})
    /\ (BinaryRequests(sent) # {}) =>
         /\ DownloadEntries # {}
         /\ dlMetadata # EmptyMetadata /\ Truthy(dlMetadata.videoUrl)
         /\ BinaryRequests(sent) = {Len(sent)}
    /\ (Done /\ metadata = EmptyMetadata) =>
         /\ DownloadEntries = {}
         /\ BinaryRequests(sent) = {}
         /\ dlOutcome = NoResult
         /\ ~(outcome.kind = "return" /\ outcome.val.success)

\* C34 witness: the facade's scrape of an Instagram download failed with a
\* NetworkError after its two attempts sent four requests, and the call ended
\* without entering Extractor download and without a binary request.
C34_Witness ==
  /\ Done /\ op = "download" /\ cls.ok /\ cls.platform = "instagram"
  /\ metadata = EmptyMetadata
  /\ calls = 2 /\ Len(sent) = 4
  /\ lastError.name = "NetworkError"
  /\ DownloadEntries = {} /\ BinaryRequests(sent) = {}
  /\ outcome.kind = "return" /\ ~outcome.val.success

\* C35 (as claimed): the normalized URL of every accepted URL is accepted
\* by the classifier too, with the same platform.
C35_ClassStableUnderNormalize ==
  (pc = "u_done") => (recls.ok /\ recls.platform = cls.platform)

\* A scrape is running or has run: getMetadata was called with a URL the
\* classifier accepts.
Scraping == op = "getMetadata" /\ pc # "idle" /\ cls.ok

\* What a scrape whose extractor holds a retry count of at least 1 has used
\* so far, and how it ended if it has.
ScrapeBounded ==
  (Scraping /\ fn \in {"instagram", "facebook"} /\ ConfigOf(fn).retries >= 1) =>
    LET r == ConfigOf(fn).retries
    IN /\ retries = r
       /\ (config.retries.set /\ config.retries.v >= 1) => r = config.retries.v
       /\ calls <= r
       /\ Len(waits) <= r - 1
       /\ requests <= 2 * r /\ Len(sent) = requests
       /\ \A k \in DOMAIN sent : sent[k].responseType = "default"
       /\ Done =>
            \/ outcome.kind = "return" /\ outcome.val.platform = fn
            \/ /\ outcome.kind = "throw"
               /\ outcome.err.name \in {"ParseError", "NetworkError"}
               /\ calls = r /\ Len(waits) = r - 1

\* C36: when every request is answered or fails in the end, every scrape
\* call ends; a scrape with a retry count r >= 1 makes at most r attempts,
\* at most r-1 waits and at most 2*r requests, all of them metadata requests,
\* and ends with a record or with a raised error.
C36_ScrapeTerminates ==
  /\ []ScrapeBounded
  /\ (Scraping ~> Done)

\* C36 witness: a scrape configured with two attempts used both, waited
\* once, sent four requests and ended with a raised error.
C36_Witness ==
  /\ Scraping /\ Done
  /\ config.retries = Given(2)
  /\ calls = 2 /\ Len(waits) = 1 /\ requests = 4
  /\ outcome.kind = "throw" /\ outcome.err.name = "ParseError"

\* The records the call holds: those the strategies of the running attempt
\* yielded, the facade's, Extractor download's, and the one returned.
Records ==
  {ran[k].val : k \in {j \in DOMAIN ran : ran[j].val # Null}}
  \cup (IF metadata # EmptyMetadata THEN {metadata} ELSE {})
  \cup (IF dlMetadata # EmptyMetadata THEN {dlMetadata} ELSE {})
  \cup (IF Done /\ op = "getMetadata" /\ outcome.kind = "return" THEN {outcome.val} ELSE {})
  \cup (IF Done /\ op = "download" /\ outcome.kind = "return" /\ outcome.val.success
        THEN {outcome.val.metadata} ELSE {})

\* C37: the url of every record, whichever strategy yielded it, is the URL
\* scrape was called with, which through the facade is the classifier's
\* normalized URL; it is not the URL any request of the call was sent to
\* unless that is the scrape URL itself (so not the API URL with its query,
\* and not the mobile-site URL when that differs).
C37_RecordUrlIsScrapeUrl ==
  \A md \in Records :
    /\ md.url = scrapeUrl
    /\ md.url = cls.normalizedUrl
    /\ \A k \in DOMAIN sent : (sent[k].url # scrapeUrl) => md.url # sent[k].url

\* C37 witness: getMetadata of a Facebook watch URL with extra parameters
\* returned the record of the mobile-site strategy, whose url is the
\* normalized URL, neither the raw URL nor the m.facebook.com URL requested.
C37_Witness ==
  /\ Done /\ op = "getMetadata" /\ outcome.kind = "return"
  /\ ran[Len(ran)].strategy = "mobile"
  /\ outcome.val.url = cls.normalizedUrl
  /\ cls.normalizedUrl # url.s
  /\ sent[Len(sent)].url = toMobile(scrapeUrl)
  /\ toMobile(scrapeUrl) # scrapeUrl

\* C38: every record carries one platform tag, that of the classified
\* platform; an Instagram record has type video or reel, a Facebook record
\* has type video, and no record has type story or post.
C38_PlatformAndType ==
  \A md \in Records :
    /\ md.platform \in {"instagram", "facebook"}
    /\ md.platform = cls.platform
    /\ (md.platform = "instagram") => md.type \in {"video", "reel"}
    /\ (md.platform = "facebook") => md.type = "video"
    /\ md.type \notin {"story", "post"}

\* C38 witness: getMetadata returned an Instagram record of type reel that
\* the page-script strategy built.
C38_Witness ==
  /\ Done /\ op = "getMetadata" /\ outcome.kind = "return"
  /\ ran[Len(ran)].strategy = "scripts"
  /\ outcome.val.platform = "instagram"
  /\ outcome.val.type = "reel"

\* The string s holds, in any letter case, an Instagram signature and a
\* Facebook signature.
BothSignatures(s) == HasSignature(s, InstagramSigs) /\ HasSignature(s, FacebookSigs)

\* C39: a string with both an Instagram and a Facebook signature is accepted
\* as instagram and its normalized URL is the Instagram normalization of the
\* string, whatever the Facebook normalization of it would give or throw.
C39_InstagramFirst ==
  (Classify_Done /\ url.type = "string" /\ BothSignatures(url.s)) =>
    /\ cls = Classified("instagram", normalizeInstagramURL(url.s).val)
    /\ cls.err = Undefined

\* C39 witness: a string with both signatures on which the Facebook
\* normalization throws (new URL cannot parse it) was classified instagram.
C39_Witness ==
  /\ pc = "u_classified" /\ url.type = "string" /\ BothSignatures(url.s)
  /\ ~includes(url.s, "fb.watch")
  /\ ~normalizeFacebookURL(url.s).ok
  /\ cls.ok /\ cls.platform = "instagram"
  /\ cls.normalizedUrl = splitQuery0(url.s) \o <<"/">>

====
